---- MODULE Spec2Model ----
(***************************************************************************)
(* Benchmark orchestration of ollama_monitor: PerformanceTestWorker.run    *)
(* (ui/tabs/performance_tab.py) with its control methods cancel_test,      *)
(* pause_test and resume_test, the per-round ThreadPoolExecutor and the    *)
(* tasks it runs.                                                          *)
(***************************************************************************)
EXTENDS Integers, Sequences, FiniteSets, Bags, TLC

\* ------------------------------------------------------------------ bounds
MaxRounds == 2
MaxUsers == 2
MaxParallel == 2
MaxFaults == 1
MaxChunks == 2
MaxClock == 3
MaxResults == 3
MaxN == 10
MaxExtra == 3
MaxCustom == 2
MaxAdded == 2
MaxRows == 2

\* ------------------------------------------------------- program constants
\* "num_parallel": None in the configuration returned when nothing is set
None == -1

\* `max_attempts = 3` of config_restart_ollama_service
max_attempts == 3

VARIABLES
    pc,               \* position of the worker thread inside run()
    num_tests,        \* self.num_tests (rounds)
    requested,        \* concurrent_users as given to __init__
    concurrent_users, \* self.concurrent_users (clamped during run)
    clients,          \* len(clients)
    total_tests,      \* total_tests = num_tests * concurrent_users at entry
    prompts,          \* len(prompts) returned by select_balanced_prompts
    is_cancelled,     \* self.is_cancelled
    is_paused,        \* self.is_paused
    round_num,        \* loop variable of the round loop (0-based)
    current_prompts,  \* indexes into prompts of the slice of this round
    tasks,            \* every task submitted to an executor, in order
    futures,          \* indexes into tasks of the futures of this round
    idx,              \* position of the collecting loop in futures
    results,          \* report.results
    emitted,          \* test_round_completed events, in order
    report_params,    \* report.test_params (the copy made at entry)
    self_params,      \* self.test_params
    signal,           \* final signal: "none", "completed" or "error"
    hist              \* observations of the run (history)


\* ---------------------------------------------------------------------
\* PerformanceTester.test_case and the generator it iterates over
\* (OllamaClient.generate_completion), with the timer thread beside them
VARIABLES
    tc_pc,                  \* position of the test case: "idle", "start", "post",
                            \* "iter", "yielded", "after_loop", "returned"
    now,                    \* time.time(), in whole seconds
    timeout,                \* the timeout argument, in seconds
    timer,                  \* threading.Timer: "none", "armed", "fired", "cancelled"
    cancel_event,           \* threading.Event set by the timer
    chunk,                  \* the chunk the generator has just yielded
    gen_done,               \* the generator has nothing left after this chunk
    delivered,              \* lines the server has sent so far
    enum_i,                 \* the index i given by enumerate
    start_time,
    request_sent_time,
    first_token_time,
    total_tokens,
    token_count_from_api,
    eval_duration_from_api,
    result,                 \* the TestResult returned, NoResult before
    tc_hist                 \* what happened to this test case (observation)

case_vars == <<tc_pc, now, timeout, timer, cancel_event, chunk, gen_done, delivered, enum_i,
               start_time, request_sent_time, first_token_time, total_tokens,
               token_count_from_api, eval_duration_from_api, result, tc_hist>>

\* ---------------------------------------------------------------------
\* The figures of a PerformanceReport
VARIABLES
    report,                 \* the report run() fills and completes
    fresh,                  \* PerformanceReport(..., results=report.results)
    computed                \* which of the two computations have been done

agg_vars == <<report, fresh, computed>>

worker_vars == <<pc, num_tests, requested, concurrent_users, clients, total_tests,
                 prompts, is_cancelled, is_paused, round_num, current_prompts,
                 tasks, futures, idx, results, emitted, report_params, self_params,
                 signal, hist>>

\* ---------------------------------------------------------------------
\* PerformanceTester's catalogue of prompts and one call of
\* select_balanced_prompts (utils/performance_tester.py)
VARIABLES
    prompts_by_category,    \* category -> list of its prompts
    custom_prompts,         \* the prompts added with add_custom_prompt
    last_added,             \* the arguments of the last add_custom_prompt
    sel_pc,                 \* "idle", "cycle" (in the second round), "shuffle"
                            \* (before the final shuffle), "returned"
    num_prompts,            \* the argument of the call
    selected_prompts,       \* the list being built, as a bag
    available_categories,   \* the non-empty categories the call draws from
    remaining,              \* prompts still to be chosen
    unshuffled,             \* part of category_cycle whose shuffled order is
                            \* not drawn yet
    category_cycle,         \* the categories put back at the tail of the cycle
    selected_by_category,   \* category -> prompts tracked as chosen from it
    returned                \* the list the call returned, as a bag

prompt_vars == <<prompts_by_category, custom_prompts, last_added, sel_pc,
                 num_prompts, selected_prompts, available_categories, remaining,
                 unshuffled, category_cycle, selected_by_category, returned>>

\* ---------------------------------------------------------------------
\* the performance tab around its start button (PerformanceTab._start_test)
VARIABLES
    current_model,          \* the model chosen in the main window, "" if none
    temperature_text,       \* the text of temperature_input
    details_rows,           \* rows of the details table
    current_report,         \* "none", "initial" (made by _start_test) or
                            \* "completed" (handed over by the worker)
    export_enabled,         \* the two export buttons
    start_enabled,          \* the start button
    istesting,              \* the flag _start_test sets on entry
    is_testing,             \* the flag of the progress animation
    test_worker,            \* "none", "running", "finished"
    warning,                \* the message box _start_test showed last
    is_test_paused,         \* the tab's paused indicator
    stop_enabled,           \* the stop button
    worker_is_paused        \* is_paused of the worker in test_worker

start_vars == <<current_model, temperature_text, details_rows, current_report,
                export_enabled, start_enabled, istesting, is_testing, test_worker,
                warning, is_test_paused, stop_enabled, worker_is_paused>>

\* ---------------------------------------------------------------------
\* run() from the restart of the service to the warm-up request
VARIABLES
    rs_pc,                  \* position: "ensure", "wait_stop", "start_loop",
                            \* "returned", "warmed"
    attempt_count,          \* the local of config_restart_ollama_service
    success2,               \* the local of config_restart_ollama_service
    waits,                  \* turns of the wait-for-stop loop so far
    sent                    \* what went out: "stop", "start", "generate"

restart_vars == <<rs_pc, attempt_count, success2, waits, sent>>

\* ---------------------------------------------------------------------
\* The parameter maps of a run and the threads that write them
VARIABLES
    thread_pc,              \* the worker thread: "none", "copy", "warmup",
                            \* "probe", "rounds", "finalize", "done"
    users,                  \* concurrent_users handed to the worker
    rounds,                 \* rounds handed to the worker
    turn,                   \* turns of the round loop done
    keys,                   \* the keys of the two parameter dicts
    tab_params,             \* the dict self.current_report.test_params is,
                            \* "none" when current_report is None
    pending,                \* signals emitted and not yet handled
    written                 \* per dict, the threads that wrote it while the
                            \* worker thread was running

share_vars == <<thread_pc, users, rounds, turn, keys, tab_params, pending, written>>

unit_vars == <<prompt_vars, start_vars, restart_vars, share_vars>>

vars == <<worker_vars, case_vars, agg_vars, unit_vars>>

\* --------------------------------------------------------------- helpers
\* dict.get(key, default)
Get(d, k, default) == IF k \in DOMAIN d THEN d[k] ELSE default

\* d[k] = v
Put(d, k, v) == [x \in DOMAIN d \cup {k} |-> IF x = k THEN v ELSE d[x]]

\* answers of GET /api/version as character sequences; "uk" stands for the
\* two-character "未知" returned when the request fails
Versions == { <<"0", ".", "5", ".", "7">>, <<"u", "k">>, <<"1", "2">>, <<"0", "9">> }

Digits == {"0", "1", "2", "3", "4", "5", "6", "7", "8", "9"}

\* check_parallel_support(version) for a one-character version: the tuple
\* (int(version),) compared with (0, 1, 33); a non-number is not supported
check_parallel_support(v) == v \in Digits /\ v # "0"

\* the label a result is emitted under: "(round,slot)" for several users,
\* the bare round otherwise
DisplayRound(r, i, cu) == IF cu > 1 THEN <<r, i>> ELSE <<r>>

WarmupLabel == <<0>>

\* a TestResult: the prompt it ran (0 for the warm-up prompt) and its error
TestResult(p, e) == [prompt |-> p, error |-> e]

Live(t) == t.state \in {"pending", "running"}

InRound == {"submit", "collect_check", "collect_wait", "shutdown"}

Terminal == {"done", "failed"}

\* the failures met so far: results with an error, and tasks of the open
\* executor that ended with one
Faults ==
    Cardinality({k \in DOMAIN results : results[k].error # "none"})
    + Cardinality({n \in DOMAIN tasks : tasks[n].error # "none"})

\* ------------------------------------------------------ prompt catalogue
\* the category "自定义"
CustomCategory == "custom"

\* max(1, num_prompts // 5): the share of a selection taken from "自定义"
CustomShare == 5

\* the dataclass TestPrompt: its fields in the order of their declaration,
\* which is the order of the positional arguments of its constructor
TestPrompt(a, b, c) == [category |-> a, name |-> b, content |-> c]

\* the six categories of DEFAULT_PROMPTS
BuiltinCategories == {"text", "qa", "code", "creative", "reasoning", "complex"}

\* DEFAULT_PROMPTS, with one prompt written out for each category in the
\* place of the ten the source lists
DEFAULT_PROMPTS == {TestPrompt(c, "default", "text") : c \in BuiltinCategories}

\* _init_default_prompts: the default prompts grouped by their category
init_default_prompts ==
    [c \in {p.category : p \in DEFAULT_PROMPTS} |->
        <<CHOOSE p \in DEFAULT_PROMPTS : p.category = c>>]

\* a category line of prompts.txt other than "[自定义]"
ExtraCategory(k) == "extra" \o ToString(k)

\* prompts.txt as what it holds: a number of categories of its own (the first
\* with two prompts, the others with one) and a number of prompts under
\* "[自定义]"; a file that holds any of these ends with a category line that
\* no prompt follows
Files == [extras : 0..MaxExtra, custom : 0..MaxCustom]

NoFile == [extras |-> 0, custom |-> 0]

FileCategories(f) ==
    {ExtraCategory(k) : k \in 1..f.extras}
        \cup (IF f.custom > 0 THEN {CustomCategory} ELSE {})
        \cup (IF f.extras + f.custom > 0 THEN {"empty"} ELSE {})

FileLines(f, c) ==
    IF c = CustomCategory THEN f.custom
    ELSE IF c = "empty" THEN 0
    ELSE IF c = ExtraCategory(1) THEN 2
    ELSE 1

\* _load_prompts_from_file: a category line adds the category when it is new,
\* a line "name: content" becomes TestPrompt(name, content, current_category)
load_prompts_from_file(d, f) ==
    [c \in DOMAIN d \cup FileCategories(f) |->
        Get(d, c, <<>>) \o
        (IF c \in FileCategories(f)
         THEN [j \in 1..FileLines(f, c) |->
                  TestPrompt("line" \o ToString(j), "file text", c)]
         ELSE <<>>)]

\* no call of select_balanced_prompts is going on
SelectIdle ==
    /\ sel_pc = "idle"
    /\ num_prompts = 0
    /\ selected_prompts = EmptyBag
    /\ available_categories = {}
    /\ remaining = 0
    /\ unshuffled = {}
    /\ category_cycle = <<>>
    /\ selected_by_category = <<>>
    /\ returned = EmptyBag
    /\ last_added = TestPrompt("", "", "")

\* PerformanceTester.__init__ with the prompts.txt it finds
Constructed(f) ==
    /\ prompts_by_category = load_prompts_from_file(init_default_prompts, f)
    /\ custom_prompts = <<>>
    /\ SelectIdle

PromptIdle == Constructed(NoFile)

\* the tab as PerformanceTab.__init__ leaves it
StartIdle ==
    /\ current_model = ""
    /\ temperature_text = <<"0", ".", "8">>
    /\ details_rows = 0
    /\ current_report = "none"
    /\ export_enabled = FALSE
    /\ start_enabled = TRUE
    /\ istesting = FALSE
    /\ is_testing = FALSE
    /\ test_worker = "none"
    /\ warning = "none"
    /\ is_test_paused = FALSE
    /\ stop_enabled = FALSE
    /\ worker_is_paused = FALSE

\* run() is about to call config_restart_ollama_service(None)
RestartIdle ==
    /\ rs_pc = "ensure"
    /\ attempt_count = 0
    /\ success2 = FALSE
    /\ waits = 0
    /\ sent = <<>>

\* the two dicts of a run: the one _start_test builds and hands to the
\* initial report and to the worker, and the copy run() makes for its report
Dicts == {"start_params", "run_params"}

\* no test has been started
ShareIdle ==
    /\ thread_pc = "none"
    /\ users = 1
    /\ rounds = 1
    /\ turn = 0
    /\ keys = [d \in Dicts |-> {}]
    /\ tab_params = "none"
    /\ pending = <<>>
    /\ written = [d \in Dicts |-> {}]

UnitIdle == PromptIdle /\ StartIdle /\ RestartIdle /\ ShareIdle

\* ------------------------------------------------------------------ Init
WorkerInit ==
    /\ pc = "start"
    /\ num_tests \in 1..MaxRounds
    /\ requested \in 1..MaxUsers
    /\ concurrent_users = requested
    /\ clients = 0
    /\ total_tests = 0
    /\ prompts = 0
    /\ is_cancelled = FALSE
    /\ is_paused = FALSE
    /\ round_num = 0
    /\ current_prompts = <<>>
    /\ tasks = <<>>
    /\ futures = <<>>
    /\ idx = 0
    /\ results = <<>>
    /\ emitted = <<>>
    /\ report_params = <<>>
    /\ self_params = ("rounds" :> num_tests) @@ ("concurrent_users" :> requested)
    /\ signal = "none"
    /\ hist = [pause_called |-> FALSE, cancel_at |-> "none", cancel_round |-> 0,
               cancel_collected |-> 0, pause_round |-> 0, out_of_order |-> FALSE,
               loop_break |-> FALSE, collect_break |-> FALSE]

\* a number as the exact fraction num/den
Frac(n, d) == [num |-> n, den |-> d]
Zero == Frac(0, 1)

\* test_case has not returned anything yet
NoResult ==
    [error |-> "unset", first_token_latency |-> 0, tokens_per_second |-> Zero,
     total_tokens |-> 0, total_time |-> 0]

\* no test case is being looked at
CaseIdle ==
    /\ tc_pc = "idle"
    /\ now = 1
    /\ timeout = 1
    /\ timer = "none"
    /\ cancel_event = FALSE
    /\ chunk = None
    /\ gen_done = FALSE
    /\ delivered = 0
    /\ enum_i = 0
    /\ start_time = None
    /\ request_sent_time = None
    /\ first_token_time = None
    /\ total_tokens = 0
    /\ token_count_from_api = 0
    /\ eval_duration_from_api = 0
    /\ result = NoResult
    /\ tc_hist = [error_chunk |-> FALSE, raised |-> FALSE, expired_early |-> FALSE,
                  got_final |-> FALSE]

\* the defaults of the dataclass around the results rs; the rating strings
\* of the source are written in English here: "unrated", "excellent",
\* "good", "fair", "poor"
PerformanceReport(rs) ==
    [results |-> rs, test_params |-> <<>>, avg_first_token_latency |-> Zero,
     avg_tokens_per_second |-> Zero, performance_rating |-> "unrated"]

\* no report is being looked at
AggIdle ==
    /\ report = PerformanceReport(<<>>)
    /\ fresh = PerformanceReport(<<>>)
    /\ computed = {}

Init ==
    /\ WorkerInit
    /\ CaseIdle
    /\ AggIdle
    /\ UnitIdle

\* ------------------------------------------------------- control methods
cancel_test ==
    /\ pc \notin Terminal
    /\ is_cancelled' = TRUE
    /\ hist' = IF is_cancelled THEN hist
               ELSE [hist EXCEPT !.cancel_at = IF pc \in InRound THEN "round" ELSE "between",
                                 !.cancel_round = IF pc \in InRound THEN round_num + 1
                                                  ELSE round_num,
                                 !.cancel_collected =
                                     IF pc \in InRound /\ idx > 0 THEN idx - 1 ELSE 0]
    /\ UNCHANGED <<pc, num_tests, requested, concurrent_users, clients, total_tests,
                   prompts, is_paused, round_num, current_prompts, tasks, futures,
                   idx, results, emitted, report_params, self_params, signal>>
    /\ UNCHANGED <<case_vars, agg_vars, unit_vars>>

pause_test ==
    /\ pc \notin Terminal
    /\ is_paused' = TRUE
    /\ hist' = [hist EXCEPT !.pause_called = TRUE]
    /\ UNCHANGED <<pc, num_tests, requested, concurrent_users, clients, total_tests,
                   prompts, is_cancelled, round_num, current_prompts, tasks, futures,
                   idx, results, emitted, report_params, self_params, signal>>
    /\ UNCHANGED <<case_vars, agg_vars, unit_vars>>

\* variant: resuming starts the round loop over
resume_test_Restart ==
    /\ pc \notin Terminal
    /\ is_paused' = FALSE
    /\ round_num' = 0
    /\ UNCHANGED <<pc, num_tests, requested, concurrent_users, clients, total_tests,
                   prompts, is_cancelled, current_prompts, tasks, futures,
                   idx, results, emitted, report_params, self_params, signal, hist>>
    /\ UNCHANGED <<case_vars, agg_vars, unit_vars>>

resume_test ==
    /\ pc \notin Terminal
    /\ is_paused' = FALSE
    /\ UNCHANGED <<pc, num_tests, requested, concurrent_users, clients, total_tests,
                   prompts, is_cancelled, round_num, current_prompts, tasks, futures,
                   idx, results, emitted, report_params, self_params, signal, hist>>
    /\ UNCHANGED <<case_vars, agg_vars, unit_vars>>

\* ------------------------------------------------------------ run(): entry
\* total_tests, progress 0, the report with a copy of the parameters, the
\* service restart before the warm-up
Begin ==
    /\ pc = "start"
    /\ total_tests' = num_tests * concurrent_users
    /\ report_params' = self_params
    /\ pc' = "warmup"
    /\ UNCHANGED <<num_tests, requested, concurrent_users, clients, prompts,
                   is_cancelled, is_paused, round_num, current_prompts, tasks,
                   futures, idx, results, emitted, self_params, signal, hist>>
    /\ UNCHANGED <<case_vars, agg_vars, unit_vars>>

\* variant: the warm-up result goes out under the label of round 1
WarmUp_AsRoundOne ==
    /\ pc = "warmup"
    /\ \E e \in {"none"} \cup (IF Faults < MaxFaults THEN {"error"} ELSE {}) :
          /\ results' = Append(results, TestResult(0, e))
          /\ emitted' = Append(emitted, [result |-> TestResult(0, e), label |-> <<1>>])
    /\ clients' = 1
    /\ pc' = IF concurrent_users > 1 THEN "probe" ELSE "prepare"
    /\ UNCHANGED <<num_tests, requested, concurrent_users, total_tests, prompts,
                   is_cancelled, is_paused, round_num, current_prompts, tasks,
                   futures, idx, self_params, report_params, signal, hist>>
    /\ UNCHANGED <<case_vars, agg_vars, unit_vars>>

\* round 0: one run_single_test on the tester's own client; its result, or
\* the error result built from an exception, is appended and emitted as "0"
WarmUp ==
    /\ pc = "warmup"
    /\ \E e \in {"none"} \cup (IF Faults < MaxFaults THEN {"error"} ELSE {}) :
          /\ results' = Append(results, TestResult(0, e))
          /\ emitted' = Append(emitted, [result |-> TestResult(0, e), label |-> WarmupLabel])
    /\ clients' = 1
    /\ pc' = IF concurrent_users > 1 THEN "probe" ELSE "prepare"
    /\ UNCHANGED <<num_tests, requested, concurrent_users, total_tests, prompts,
                   is_cancelled, is_paused, round_num, current_prompts, tasks,
                   futures, idx, self_params, report_params, signal, hist>>
    /\ UNCHANGED <<case_vars, agg_vars, unit_vars>>

\* the except clause of run(): the error signal, no report
Fail ==
    /\ pc' = "failed"
    /\ signal' = "error"
    /\ UNCHANGED <<num_tests, requested, concurrent_users, clients, total_tests,
                   prompts, is_cancelled, is_paused, round_num, current_prompts,
                   tasks, futures, idx, results, emitted, report_params,
                   self_params, hist>>

\* the users after the version check and after the reconfiguration:
\* 1 when the version does not support parallelism or the restart failed
UsersAfterProbe(supports, np, restart_ok) ==
    LET cu1 == IF supports THEN concurrent_users ELSE 1
    IN  IF np < cu1 /\ ~restart_ok THEN 1 ELSE cu1

\* the warning left in parallel_warning by the probe
WarningAfterProbe(supports, np, restart_ok, test_ok) ==
    LET cu1 == IF supports THEN concurrent_users ELSE 1
    IN  IF np < cu1 /\ ~test_ok THEN "test_failed"
        ELSE IF np < cu1 /\ ~restart_ok THEN "config_failed"
        ELSE IF ~supports THEN "unsupported"
        ELSE "version_error"

\* concurrent_users > 1: version, error = get_version(); the version check;
\* the comparison with num_parallel; reconfiguration and restart; one new
\* client per user
ParallelSetup ==
    /\ pc = "probe"
    /\ \E v \in Versions, np \in {None} \cup (1..MaxParallel),
          restart_ok \in BOOLEAN, test_ok \in BOOLEAN :
          IF Len(v) # 2 \/ np = None
          THEN Fail
          ELSE /\ concurrent_users' = UsersAfterProbe(check_parallel_support(v[1]), np, restart_ok)
               /\ self_params' = Put(self_params, "parallel_warning",
                                     WarningAfterProbe(check_parallel_support(v[1]), np, restart_ok, test_ok))
               /\ clients' = concurrent_users'
               /\ pc' = "prepare"
               /\ UNCHANGED <<num_tests, requested, total_tests, prompts, is_cancelled,
                              is_paused, round_num, current_prompts, tasks, futures,
                              idx, results, emitted, report_params, signal, hist>>
    /\ UNCHANGED <<case_vars, agg_vars, unit_vars>>

\* completed = 0, prompts = select_balanced_prompts(total_tests): exactly
\* total_tests prompts, the built-in categories never being empty
Prepare ==
    /\ pc = "prepare"
    /\ prompts' = total_tests
    /\ round_num' = 0
    /\ pc' = "round_top"
    /\ UNCHANGED <<num_tests, requested, concurrent_users, clients, total_tests,
                   is_cancelled, is_paused, current_prompts, tasks, futures, idx,
                   results, emitted, report_params, self_params, signal, hist>>
    /\ UNCHANGED <<case_vars, agg_vars, unit_vars>>

\* ------------------------------------------------------- run(): round loop
\* for round_num in range(num_tests): the cancellation check that breaks
\* out of the loop
RoundTop ==
    /\ pc = "round_top"
    /\ IF is_cancelled
       THEN /\ pc' = "finalize"
            /\ hist' = [hist EXCEPT !.loop_break = TRUE]
       ELSE /\ pc' = "pause_wait"
            /\ hist' = hist
    /\ UNCHANGED <<num_tests, requested, concurrent_users, clients, total_tests,
                   prompts, is_cancelled, is_paused, round_num, current_prompts,
                   tasks, futures, idx, results, emitted, report_params,
                   self_params, signal>>
    /\ UNCHANGED <<case_vars, agg_vars, unit_vars>>

\* prompts[start_idx:end_idx] as the indexes it keeps
Slice(start_idx, end_idx, len) ==
    LET hi == IF end_idx < len THEN end_idx ELSE len
    IN  [k \in 1..(IF hi > start_idx THEN hi - start_idx ELSE 0) |-> start_idx + k]

\* variant: the pause flag is not waited on
PauseWait_NoWait ==
    /\ pc = "pause_wait"
    /\ current_prompts' = Slice(round_num * concurrent_users,
                                round_num * concurrent_users + concurrent_users,
                                prompts)
    /\ futures' = <<>>
    /\ idx' = 0
    /\ pc' = "submit"
    /\ hist' = [hist EXCEPT !.out_of_order = FALSE]
    /\ UNCHANGED <<num_tests, requested, concurrent_users, clients, total_tests,
                   prompts, is_cancelled, is_paused, round_num, tasks, results,
                   emitted, report_params, self_params, signal>>
    /\ UNCHANGED <<case_vars, agg_vars, unit_vars>>

\* variant: the wait listens to resume_test only
PauseWait_DeafToCancel ==
    /\ pc = "pause_wait"
    /\ IF is_paused
       THEN /\ report_params' = Put(Put(report_params, "paused", TRUE),
                                    "completion_status", "paused_done")
            /\ hist' = [hist EXCEPT !.pause_round = round_num + 1]
            /\ UNCHANGED <<pc, current_prompts, futures, idx>>
       ELSE /\ current_prompts' = Slice(round_num * concurrent_users,
                                        round_num * concurrent_users + concurrent_users,
                                        prompts)
            /\ futures' = <<>>
            /\ idx' = 0
            /\ pc' = "submit"
            /\ hist' = [hist EXCEPT !.out_of_order = FALSE]
            /\ UNCHANGED report_params
    /\ UNCHANGED <<num_tests, requested, concurrent_users, clients, total_tests,
                   prompts, is_cancelled, is_paused, round_num, tasks, results,
                   emitted, self_params, signal>>
    /\ UNCHANGED <<case_vars, agg_vars, unit_vars>>

\* while self.is_paused and not self.is_cancelled: one test of the condition;
\* the body marks the report as paused and sleeps; leaving the loop goes on
\* to slice the prompts of the round and to open the executor
PauseWait ==
    /\ pc = "pause_wait"
    /\ IF is_paused /\ ~is_cancelled
       THEN /\ report_params' = Put(Put(report_params, "paused", TRUE),
                                    "completion_status", "paused_done")
            /\ hist' = [hist EXCEPT !.pause_round = round_num + 1]
            /\ UNCHANGED <<pc, current_prompts, futures, idx>>
       ELSE /\ current_prompts' = Slice(round_num * concurrent_users,
                                        round_num * concurrent_users + concurrent_users,
                                        prompts)
            /\ futures' = <<>>
            /\ idx' = 0
            /\ pc' = "submit"
            /\ hist' = [hist EXCEPT !.out_of_order = FALSE]
            /\ UNCHANGED report_params
    /\ UNCHANGED <<num_tests, requested, concurrent_users, clients, total_tests,
                   prompts, is_cancelled, is_paused, round_num, tasks, results,
                   emitted, self_params, signal>>
    /\ UNCHANGED <<case_vars, agg_vars, unit_vars>>

\* variant: every slot is given the first client
NewTask_SharedClient(concurrent_index) ==
    [round |-> round_num + 1,
     index |-> concurrent_index,
     prompt |-> current_prompts[concurrent_index],
     client |-> 1,
     dr |-> DisplayRound(round_num + 1, concurrent_index, concurrent_users),
     state |-> "pending",
     error |-> "none"]

\* the task handed to executor.submit for slot concurrent_index
NewTask(concurrent_index) ==
    [round |-> round_num + 1,
     index |-> concurrent_index,
     prompt |-> current_prompts[concurrent_index],
     client |-> ((concurrent_index - 1) % clients) + 1,
     dr |-> DisplayRound(round_num + 1, concurrent_index, concurrent_users),
     state |-> "pending",
     error |-> "none"]

\* for concurrent_index, prompt in enumerate(current_prompts, 1): one
\* executor.submit; after the last one the collecting loop starts
Submit ==
    /\ pc = "submit"
    /\ IF Len(futures) < Len(current_prompts)
       THEN /\ tasks' = Append(tasks, NewTask(Len(futures) + 1))
            /\ futures' = Append(futures, Len(tasks) + 1)
            /\ UNCHANGED <<pc, idx>>
       ELSE /\ pc' = "collect_check"
            /\ idx' = 1
            /\ UNCHANGED <<tasks, futures>>
    /\ UNCHANGED <<num_tests, requested, concurrent_users, clients, total_tests,
                   prompts, is_cancelled, is_paused, round_num, current_prompts,
                   results, emitted, report_params, self_params, signal, hist>>
    /\ UNCHANGED <<case_vars, agg_vars, unit_vars>>

\* a worker thread of the executor takes a queued task; the executor has
\* max_workers = concurrent_users threads
TaskStart(n) ==
    /\ n \in DOMAIN tasks
    /\ tasks[n].state = "pending"
    /\ Cardinality({m \in DOMAIN tasks : tasks[m].round = tasks[n].round
                                         /\ tasks[m].state = "running"}) < concurrent_users
    /\ tasks' = [tasks EXCEPT ![n].state = "running"]
    /\ UNCHANGED <<pc, num_tests, requested, concurrent_users, clients, total_tests,
                   prompts, is_cancelled, is_paused, round_num, current_prompts,
                   futures, idx, results, emitted, report_params, self_params,
                   signal, hist>>
    /\ UNCHANGED <<case_vars, agg_vars, unit_vars>>

\* test_task returns: run_single_test gives a TestResult, with its error set
\* when the test case failed
TaskFinish(n) ==
    /\ n \in DOMAIN tasks
    /\ tasks[n].state = "running"
    /\ \E e \in {"none"} \cup (IF Faults < MaxFaults THEN {"error"} ELSE {}) :
          tasks' = [tasks EXCEPT ![n].state = "done", ![n].error = e]
    /\ hist' = IF \E m \in DOMAIN tasks : /\ tasks[m].round = tasks[n].round
                                          /\ tasks[m].index < tasks[n].index
                                          /\ tasks[m].state # "done"
               THEN [hist EXCEPT !.out_of_order = TRUE]
               ELSE hist
    /\ UNCHANGED <<pc, num_tests, requested, concurrent_users, clients, total_tests,
                   prompts, is_cancelled, is_paused, round_num, current_prompts,
                   futures, idx, results, emitted, report_params, self_params,
                   signal>>
    /\ UNCHANGED <<case_vars, agg_vars, unit_vars>>

\* f.cancel() on every future that is not done: a queued task is cancelled,
\* a running one is left alone
CancelFutures(ts, fs) ==
    [n \in DOMAIN ts |->
        IF (\E k \in DOMAIN fs : fs[k] = n) /\ ts[n].state = "pending"
        THEN [ts[n] EXCEPT !.state = "cancelled"]
        ELSE ts[n]]

\* variant: the collecting loop does not look at the cancellation flag
CollectCheck_NoBreak ==
    /\ pc = "collect_check"
    /\ pc' = IF idx > Len(futures) THEN "shutdown" ELSE "collect_wait"
    /\ UNCHANGED <<num_tests, requested, concurrent_users, clients, total_tests,
                   prompts, is_cancelled, is_paused, round_num, current_prompts,
                   tasks, futures, idx, results, emitted, report_params,
                   self_params, signal, hist>>
    /\ UNCHANGED <<case_vars, agg_vars, unit_vars>>

\* variant: the collecting loop breaks on the pause flag
CollectCheck_OnPause ==
    /\ pc = "collect_check"
    /\ IF idx > Len(futures)
       THEN /\ pc' = "shutdown"
            /\ UNCHANGED <<tasks, hist>>
       ELSE IF is_paused
            THEN /\ tasks' = CancelFutures(tasks, futures)
                 /\ hist' = [hist EXCEPT !.collect_break = TRUE]
                 /\ pc' = "shutdown"
            ELSE /\ pc' = "collect_wait"
                 /\ UNCHANGED <<tasks, hist>>
    /\ UNCHANGED <<num_tests, requested, concurrent_users, clients, total_tests,
                   prompts, is_cancelled, is_paused, round_num, current_prompts,
                   futures, idx, results, emitted, report_params, self_params,
                   signal>>
    /\ UNCHANGED <<case_vars, agg_vars, unit_vars>>

\* for future in futures: the end of the list, or the cancellation check
\* that cancels what is left and breaks, or on to future.result
CollectCheck ==
    /\ pc = "collect_check"
    /\ IF idx > Len(futures)
       THEN /\ pc' = "shutdown"
            /\ UNCHANGED <<tasks, hist>>
       ELSE IF is_cancelled
            THEN /\ tasks' = CancelFutures(tasks, futures)
                 /\ hist' = [hist EXCEPT !.collect_break = TRUE]
                 /\ pc' = "shutdown"
            ELSE /\ pc' = "collect_wait"
                 /\ UNCHANGED <<tasks, hist>>
    /\ UNCHANGED <<num_tests, requested, concurrent_users, clients, total_tests,
                   prompts, is_cancelled, is_paused, round_num, current_prompts,
                   futures, idx, results, emitted, report_params, self_params,
                   signal>>
    /\ UNCHANGED <<case_vars, agg_vars, unit_vars>>

\* the result appended and emitted for the future waited on: the task's own
\* result under the label it was submitted with, or, when the wait times
\* out, an error result under the label rebuilt from the stored round info
Collected(t) ==
    IF t.state = "done"
    THEN [result |-> TestResult(t.prompt, t.error), label |-> t.dr]
    ELSE [result |-> TestResult(t.prompt, "timeout"),
          label |-> DisplayRound(t.round, t.index, concurrent_users)]

\* variant: the futures are waited on in reverse order
CollectWait_Reversed ==
    /\ pc = "collect_wait"
    /\ tasks[futures[Len(futures) + 1 - idx]].state = "done" \/ Faults < MaxFaults
    /\ results' = Append(results, Collected(tasks[futures[Len(futures) + 1 - idx]]).result)
    /\ emitted' = Append(emitted, Collected(tasks[futures[Len(futures) + 1 - idx]]))
    /\ idx' = idx + 1
    /\ pc' = "collect_check"
    /\ UNCHANGED <<num_tests, requested, concurrent_users, clients, total_tests,
                   prompts, is_cancelled, is_paused, round_num, current_prompts,
                   tasks, futures, report_params, self_params, signal, hist>>
    /\ UNCHANGED <<case_vars, agg_vars, unit_vars>>

\* variant: a wait that times out is recorded but not emitted
CollectWait_SilentTimeout ==
    /\ pc = "collect_wait"
    /\ tasks[futures[idx]].state = "done" \/ Faults < MaxFaults
    /\ results' = Append(results, Collected(tasks[futures[idx]]).result)
    /\ emitted' = IF tasks[futures[idx]].state = "done"
                  THEN Append(emitted, Collected(tasks[futures[idx]]))
                  ELSE emitted
    /\ idx' = idx + 1
    /\ pc' = "collect_check"
    /\ UNCHANGED <<num_tests, requested, concurrent_users, clients, total_tests,
                   prompts, is_cancelled, is_paused, round_num, current_prompts,
                   tasks, futures, report_params, self_params, signal, hist>>
    /\ UNCHANGED <<case_vars, agg_vars, unit_vars>>

\* future.result(timeout=task_timeout): returns once the task is done, and
\* times out while it is not; either way one result is appended and emitted
CollectWait ==
    /\ pc = "collect_wait"
    /\ tasks[futures[idx]].state = "done" \/ Faults < MaxFaults
    /\ results' = Append(results, Collected(tasks[futures[idx]]).result)
    /\ emitted' = Append(emitted, Collected(tasks[futures[idx]]))
    /\ idx' = idx + 1
    /\ pc' = "collect_check"
    /\ UNCHANGED <<num_tests, requested, concurrent_users, clients, total_tests,
                   prompts, is_cancelled, is_paused, round_num, current_prompts,
                   tasks, futures, report_params, self_params, signal, hist>>
    /\ UNCHANGED <<case_vars, agg_vars, unit_vars>>

\* variant: the executor is shut down without waiting for its tasks
Shutdown_NoWait ==
    /\ pc = "shutdown"
    /\ tasks' = SelectSeq(tasks, Live)
    /\ futures' = <<>>
    /\ round_num' = round_num + 1
    /\ pc' = IF round_num + 1 < num_tests THEN "round_top" ELSE "finalize"
    /\ UNCHANGED <<num_tests, requested, concurrent_users, clients, total_tests,
                   prompts, is_cancelled, is_paused, current_prompts,
                   idx, results, emitted, report_params, self_params,
                   signal, hist>>
    /\ UNCHANGED <<case_vars, agg_vars, unit_vars>>

\* leaving the with block: executor.shutdown(wait=True) returns when no
\* task of the executor is queued or running, and the executor and its
\* futures are dropped; then the next round, or the end of the loop
Shutdown ==
    /\ pc = "shutdown"
    /\ \A k \in DOMAIN futures : ~Live(tasks[futures[k]])
    /\ tasks' = SelectSeq(tasks, Live)
    /\ futures' = <<>>
    /\ round_num' = round_num + 1
    /\ pc' = IF round_num + 1 < num_tests THEN "round_top" ELSE "finalize"
    /\ UNCHANGED <<num_tests, requested, concurrent_users, clients, total_tests,
                   prompts, is_cancelled, is_paused, current_prompts,
                   idx, results, emitted, report_params, self_params,
                   signal, hist>>
    /\ UNCHANGED <<case_vars, agg_vars, unit_vars>>

\* the aggregates, progress at its final value, test_completed.emit(report)
Finalize ==
    /\ pc = "finalize"
    /\ signal' = "completed"
    /\ pc' = "done"
    /\ UNCHANGED <<num_tests, requested, concurrent_users, clients, total_tests,
                   prompts, is_cancelled, is_paused, round_num, current_prompts,
                   tasks, futures, idx, results, emitted, report_params,
                   self_params, hist>>
    /\ UNCHANGED <<case_vars, agg_vars, unit_vars>>

Next ==
    \/ cancel_test
    \/ pause_test
    \/ resume_test
    \/ Begin
    \/ WarmUp
    \/ ParallelSetup
    \/ Prepare
    \/ RoundTop
    \/ PauseWait
    \/ Submit
    \/ \E n \in DOMAIN tasks : TaskStart(n)
    \/ \E n \in DOMAIN tasks : TaskFinish(n)
    \/ CollectCheck
    \/ CollectWait
    \/ Shutdown
    \/ Finalize

Spec == Init /\ [][Next]_vars

\* the collecting loop gave up on the task of prompt p: future.result ran
\* into task_timeout and an error result was recorded in its place
TimedOut(p) ==
    \E k \in DOMAIN results : results[k].prompt = p /\ results[k].error = "timeout"

\* one step of the worker thread itself
WorkerStep ==
    \/ Begin
    \/ WarmUp
    \/ ParallelSetup
    \/ Prepare
    \/ RoundTop
    \/ PauseWait
    \/ Submit
    \/ CollectCheck
    \/ CollectWait
    \/ Shutdown
    \/ Finalize

\* task n of the round returns although the stream did not stall: a task the
\* collecting loop timed out on has outlived the timer of test_case as well,
\* so it sits in a socket read that has no timeout and nothing in the
\* program makes it return
TaskReturns(n) ==
    /\ n \in DOMAIN tasks
    /\ ~TimedOut(tasks[n].prompt)
    /\ TaskFinish(n)

\* the worker thread and the pool threads keep running; a paused run stays
\* paused until the user resumes it
SpecLive ==
    /\ Init
    /\ [][Next]_vars
    /\ WF_vars(WorkerStep)
    /\ \A n \in 1..MaxUsers : WF_vars(TaskStart(n))
    /\ \A n \in 1..MaxUsers : WF_vars(TaskReturns(n))

\* ---------------------------------------------------------------------
\* Runs that are paused from their start and never resumed: pause_test() is
\* the first thing that happens after start(), resume_test() is not called,
\* cancel_test() may be called at any time
NextPaused ==
    \/ pc = "start" /\ ~is_paused /\ pause_test
    \/ is_paused /\ cancel_test
    \/ is_paused /\ Begin
    \/ is_paused /\ WarmUp
    \/ is_paused /\ ParallelSetup
    \/ is_paused /\ Prepare
    \/ is_paused /\ RoundTop
    \/ is_paused /\ PauseWait
    \/ is_paused /\ Submit
    \/ is_paused /\ \E n \in DOMAIN tasks : TaskStart(n)
    \/ is_paused /\ \E n \in DOMAIN tasks : TaskFinish(n)
    \/ is_paused /\ CollectCheck
    \/ is_paused /\ Shutdown
    \/ is_paused /\ Finalize

SpecPaused == Init /\ [][NextPaused]_vars

\* the worker thread and the pool threads keep running, as in SpecLive
SpecPausedLive ==
    /\ SpecPaused
    /\ WF_vars(is_paused /\ WorkerStep)
    /\ \A n \in 1..MaxUsers : WF_vars(TaskStart(n))
    /\ \A n \in 1..MaxUsers : WF_vars(TaskReturns(n))

\* ---------------------------------------------------------------------
\* One test case: PerformanceTester.test_case(model, prompt, ..., timeout)

NsPerSecond == 1000000000

\* the lines the server can send: a token chunk, the terminal chunk with
\* its eval_count and eval_duration (whole seconds, in nanoseconds), an error
\* object, an empty keep-alive line, and a line that is not JSON
Token == [kind |-> "json", response |-> TRUE, error |-> FALSE, done |-> FALSE,
          eval_count |-> None, eval_duration |-> None]
Final(c, d) == [kind |-> "json", response |-> TRUE, error |-> FALSE, done |-> TRUE,
                eval_count |-> c, eval_duration |-> d]
ErrorChunk == [kind |-> "json", response |-> FALSE, error |-> TRUE, done |-> FALSE,
               eval_count |-> None, eval_duration |-> None]
EmptyLine == [kind |-> "empty", response |-> FALSE, error |-> FALSE, done |-> FALSE,
              eval_count |-> None, eval_duration |-> None]
BadLine == [kind |-> "bad_json", response |-> FALSE, error |-> FALSE, done |-> FALSE,
            eval_count |-> None, eval_duration |-> None]
Lines == {Token, ErrorChunk, EmptyLine, BadLine}
             \cup {Final(c, d) : c \in 0..MaxChunks, d \in {0, NsPerSecond}}

\* the except clause of test_case: every metric is 0 and error is str(e)
ErrorResult(e) ==
    [error |-> e, first_token_latency |-> 0, tokens_per_second |-> Zero,
     total_tokens |-> 0, total_time |-> 0]

\* the metrics computed after the loop, at time end_time
MeasuredResult(end_time) ==
    LET tokens == IF token_count_from_api > 0 THEN token_count_from_api ELSE total_tokens
        seen == first_token_time # None /\ first_token_time # 0
        generation_time ==
            IF eval_duration_from_api > 0 THEN eval_duration_from_api \div NsPerSecond
            ELSE IF seen THEN end_time - first_token_time ELSE 0
    IN  [error |-> "none",
         first_token_latency |-> IF seen THEN (first_token_time - request_sent_time) * 1000
                                 ELSE 0,
         tokens_per_second |->
             IF tokens > 1 /\ generation_time > 0 THEN Frac(tokens - 1, generation_time)
             ELSE IF tokens = 1 /\ generation_time > 0 THEN Frac(1, generation_time)
             ELSE Zero,
         total_tokens |-> tokens,
         total_time |-> (end_time - start_time) * 1000]

\* timer.cancel(): stops a timer that has not fired yet
TimerCancelled == IF timer = "armed" THEN "cancelled" ELSE timer

\* an exception e leaves the loop: the finally clause cancels the timer and
\* the except clause returns the error result
Except(e) ==
    /\ timer' = TimerCancelled
    /\ result' = ErrorResult(e)
    /\ tc_pc' = "returned"
    /\ tc_hist' = [tc_hist EXCEPT !.raised = TRUE]

\* start_time, the timer and request_sent_time are set one after the other
TestCaseBegin ==
    /\ tc_pc = "start"
    /\ start_time' = now
    /\ timer' = "armed"
    /\ request_sent_time' = now
    /\ tc_pc' = "post"
    /\ UNCHANGED <<now, timeout, cancel_event, chunk, gen_done, delivered, enum_i,
                   first_token_time, total_tokens, token_count_from_api,
                   eval_duration_from_api, result, tc_hist>>
    /\ UNCHANGED <<worker_vars, agg_vars, unit_vars>>

\* a second passes
Tick ==
    /\ tc_pc \notin {"idle", "returned"}
    /\ now < MaxClock
    /\ now' = now + 1
    /\ UNCHANGED <<tc_pc, timeout, timer, cancel_event, chunk, gen_done, delivered, enum_i,
                   start_time, request_sent_time, first_token_time, total_tokens,
                   token_count_from_api, eval_duration_from_api, result, tc_hist>>
    /\ UNCHANGED <<worker_vars, agg_vars, unit_vars>>

\* the timer thread runs cancel_event.set once timeout seconds have passed
TimerFires ==
    /\ timer = "armed"
    /\ now >= start_time + timeout
    /\ timer' = "fired"
    /\ cancel_event' = TRUE
    /\ tc_hist' = IF tc_pc \in {"post", "iter", "yielded"} /\ ~tc_hist.got_final
                  THEN [tc_hist EXCEPT !.expired_early = TRUE]
                  ELSE tc_hist
    /\ UNCHANGED <<tc_pc, now, timeout, chunk, gen_done, delivered, enum_i, start_time,
                   request_sent_time, first_token_time, total_tokens,
                   token_count_from_api, eval_duration_from_api, result>>
    /\ UNCHANGED <<worker_vars, agg_vars, unit_vars>>

\* generate_completion up to the first line: session.post and raise_for_status
\* either give the response or raise a RequestException, which the generator
\* turns into one chunk {"error": ...} before it ends
Post ==
    /\ tc_pc = "post"
    /\ \E ok \in BOOLEAN :
          IF ok
          THEN /\ tc_pc' = "iter"
               /\ UNCHANGED <<chunk, gen_done, tc_hist>>
          ELSE /\ chunk' = ErrorChunk
               /\ gen_done' = TRUE
               /\ tc_pc' = "yielded"
               /\ tc_hist' = [tc_hist EXCEPT !.error_chunk = TRUE]
    /\ UNCHANGED <<now, timeout, timer, cancel_event, delivered, enum_i, start_time,
                   request_sent_time, first_token_time, total_tokens,
                   token_count_from_api, eval_duration_from_api, result>>
    /\ UNCHANGED <<worker_vars, agg_vars, unit_vars>>

\* the generator yields line to the loop of test_case
Yield(line) ==
    /\ chunk' = line
    /\ tc_pc' = "yielded"
    /\ tc_hist' = [tc_hist EXCEPT !.error_chunk = @ \/ line.error,
                                  !.got_final = @ \/ line.done]
    /\ UNCHANGED <<timer, result, gen_done>>

\* response.iter_lines() gives the next line: the generator first looks at
\* cancel_event and, when it is set, closes the response and ends without
\* a word; otherwise it yields the decoded line, skips an empty one, and
\* json.loads raises ValueError on a line that is not JSON
LineArrives ==
    /\ tc_pc = "iter"
    /\ delivered < MaxChunks
    /\ ~tc_hist.got_final
    /\ delivered' = delivered + 1
    /\ \E line \in Lines :
          IF cancel_event
          THEN /\ tc_pc' = "after_loop"
               /\ UNCHANGED <<chunk, gen_done, timer, result, tc_hist>>
          ELSE CASE line.kind = "json" -> Yield(line)
                 [] line.kind = "empty" -> UNCHANGED <<tc_pc, chunk, gen_done, timer,
                                                      result, tc_hist>>
                 [] line.kind = "bad_json" -> Except("ValueError") /\ UNCHANGED <<chunk, gen_done>>
    /\ UNCHANGED <<now, timeout, cancel_event, enum_i, start_time, request_sent_time,
                   first_token_time, total_tokens, token_count_from_api,
                   eval_duration_from_api>>
    /\ UNCHANGED <<worker_vars, agg_vars, unit_vars>>

\* the stream ends: the server closes it and iter_lines stops, or the
\* connection breaks and the RequestException becomes a chunk {"error": ...}
StreamEnds ==
    /\ tc_pc = "iter"
    /\ \E broken \in BOOLEAN :
          IF broken
          THEN /\ chunk' = ErrorChunk
               /\ gen_done' = TRUE
               /\ tc_pc' = "yielded"
               /\ tc_hist' = [tc_hist EXCEPT !.error_chunk = TRUE]
          ELSE /\ tc_pc' = "after_loop"
               /\ UNCHANGED <<chunk, gen_done, tc_hist>>
    /\ UNCHANGED <<now, timeout, timer, cancel_event, delivered, enum_i, start_time,
                   request_sent_time, first_token_time, total_tokens,
                   token_count_from_api, eval_duration_from_api, result>>
    /\ UNCHANGED <<worker_vars, agg_vars, unit_vars>>

\* the body of the for loop of test_case on the chunk just yielded
LoopBody ==
    /\ tc_pc = "yielded"
    /\ IF cancel_event
       THEN /\ Except("TimeoutError")
            /\ UNCHANGED <<enum_i, first_token_time, total_tokens, token_count_from_api,
                           eval_duration_from_api>>
       ELSE /\ first_token_time' = IF enum_i = 0 /\ first_token_time = None /\ chunk.response
                                   THEN now ELSE first_token_time
            /\ total_tokens' = IF chunk.response THEN total_tokens + 1 ELSE total_tokens
            /\ token_count_from_api' = IF chunk.eval_count # None THEN chunk.eval_count
                                       ELSE token_count_from_api
            /\ eval_duration_from_api' = IF chunk.eval_duration # None
                                         THEN chunk.eval_duration
                                         ELSE eval_duration_from_api
            /\ enum_i' = enum_i + 1
            /\ tc_pc' = IF gen_done THEN "after_loop" ELSE "iter"
            /\ UNCHANGED <<timer, result, tc_hist>>
    /\ UNCHANGED <<now, timeout, cancel_event, chunk, gen_done, delivered, start_time,
                   request_sent_time>>
    /\ UNCHANGED <<worker_vars, agg_vars, unit_vars>>

\* variant: the speed is taken over all the tokens, the first included
AfterLoop_AllTokens ==
    /\ tc_pc = "after_loop"
    /\ timer' = TimerCancelled
    /\ result' = [MeasuredResult(now) EXCEPT
                     !.tokens_per_second =
                         IF @.num > 0 THEN Frac(MeasuredResult(now).total_tokens, @.den)
                         ELSE @]
    /\ tc_pc' = "returned"
    /\ UNCHANGED <<now, timeout, cancel_event, chunk, gen_done, delivered, enum_i, start_time,
                   request_sent_time, first_token_time, total_tokens,
                   token_count_from_api, eval_duration_from_api, tc_hist>>
    /\ UNCHANGED <<worker_vars, agg_vars, unit_vars>>

\* the loop has ended without an exception: the timer is cancelled, end_time
\* is read and the result is built from what was counted
AfterLoop ==
    /\ tc_pc = "after_loop"
    /\ timer' = TimerCancelled
    /\ result' = MeasuredResult(now)
    /\ tc_pc' = "returned"
    /\ UNCHANGED <<now, timeout, cancel_event, chunk, gen_done, delivered, enum_i, start_time,
                   request_sent_time, first_token_time, total_tokens,
                   token_count_from_api, eval_duration_from_api, tc_hist>>
    /\ UNCHANGED <<worker_vars, agg_vars, unit_vars>>

InitCase ==
    /\ WorkerInit
    /\ num_tests = 1
    /\ requested = 1
    /\ tc_pc = "start"
    /\ now = 1
    /\ timeout \in 1..MaxClock
    /\ timer = "none"
    /\ cancel_event = FALSE
    /\ chunk = None
    /\ gen_done = FALSE
    /\ delivered = 0
    /\ enum_i = 0
    /\ start_time = None
    /\ request_sent_time = None
    /\ first_token_time = None
    /\ total_tokens = 0
    /\ token_count_from_api = 0
    /\ eval_duration_from_api = 0
    /\ result = NoResult
    /\ tc_hist = [error_chunk |-> FALSE, raised |-> FALSE, expired_early |-> FALSE,
                  got_final |-> FALSE]
    /\ AggIdle
    /\ UnitIdle

NextCase ==
    \/ TestCaseBegin
    \/ Tick
    \/ TimerFires
    \/ Post
    \/ LineArrives
    \/ StreamEnds
    \/ LoopBody
    \/ AfterLoop

SpecCase == InitCase /\ [][NextCase]_vars

\* ---------------------------------------------------------------------
\* The averages and the rating of a report

\* sums and quotients of exact fractions
FracAdd(a, b) == Frac(a.num * b.den + b.num * a.den, a.den * b.den)
FracDiv(a, n) == Frac(a.num, a.den * n)
FracEq(a, b) == a.num * b.den = b.num * a.den
\* a > n and a >= n for a whole number n
FracGt(a, n) == a.num > n * a.den
FracGe(a, n) == a.num >= n * a.den

\* the results a report is drawn from: an error result, or a measured one
\* with a latency and a speed around the rating thresholds
TpsValues == {0, 10, 11, 30, 31, 60, 61}
LatencyValues == {0, 200, 500}
ResultValues ==
    {ErrorResult("error")}
        \cup {[error |-> "none", first_token_latency |-> l, tokens_per_second |-> Frac(t, 1),
               total_tokens |-> t, total_time |-> l + 1000]
              : l \in LatencyValues, t \in TpsValues}
ResultLists == UNION {[1..n -> ResultValues] : n \in 1..MaxResults}

\* sum(f(r) for r in rs)
RECURSIVE SumLatency(_)
SumLatency(rs) ==
    IF rs = <<>> THEN Zero
    ELSE FracAdd(Frac(Head(rs).first_token_latency, 1), SumLatency(Tail(rs)))

RECURSIVE SumTps(_)
SumTps(rs) ==
    IF rs = <<>> THEN Zero ELSE FracAdd(Head(rs).tokens_per_second, SumTps(Tail(rs)))

\* `not r.error and r.tokens_per_second > 0`
Valid(r) == r.error = "none" /\ FracGt(r.tokens_per_second, 0)

\* the rating chain of run(): strictly above 60, 30, 10
RunRating(avg) ==
    IF FracGt(avg, 60) THEN "excellent"
    ELSE IF FracGt(avg, 30) THEN "good"
    ELSE IF FracGt(avg, 10) THEN "fair"
    ELSE "poor"

\* the rating chain of __post_init__: 60, 30, 10 or above
PostInitRating(avg) ==
    IF FracGe(avg, 60) THEN "excellent"
    ELSE IF FracGe(avg, 30) THEN "good"
    ELSE IF FracGe(avg, 10) THEN "fair"
    ELSE "poor"

\* a - b, and max(0, a)
FracSub(a, b) == Frac(a.num * b.den - b.num * a.den, a.den * b.den)
FracMax0(a) == IF a.num < 0 THEN Zero ELSE a

\* `r.first_token_latency > 0`
Measured(r) == r.first_token_latency > 0

\* the model load time of run(): with other_latencies, the latencies above 0
\* after the first result, not empty, test_params gets avg_latency, their
\* mean, and model_load_time, max(0, first latency - mean) / 1000
WithLoadTime(rep) ==
    LET other_latencies == SelectSeq(Tail(rep.results), Measured)
        avg_latency == FracDiv(SumLatency(other_latencies), Len(other_latencies))
        model_load_time_ms ==
            FracMax0(FracSub(Frac(rep.results[1].first_token_latency, 1), avg_latency))
    IN  IF other_latencies = <<>> THEN rep
        ELSE [rep EXCEPT !.test_params =
                 Put(Put(rep.test_params, "model_load_time",
                         FracDiv(model_load_time_ms, 1000)),
                     "avg_latency", avg_latency)]

\* the averages and the rating of run() over valid_results
WithAverages(rep, valid_results) ==
    IF valid_results = <<>> THEN rep
    ELSE [rep EXCEPT
             !.avg_first_token_latency =
                 FracDiv(SumLatency(valid_results), Len(valid_results)),
             !.avg_tokens_per_second =
                 FracDiv(SumTps(valid_results), Len(valid_results)),
             !.performance_rating =
                 RunRating(FracDiv(SumTps(valid_results), Len(valid_results)))]

\* variant: the warm-up result is averaged with the others
Aggregate_WithWarmup ==
    /\ "run" \notin computed
    /\ report.results # <<>>
    /\ computed' = computed \cup {"run"}
    /\ report' = IF Len(report.results) > 1
                 THEN WithAverages(WithLoadTime(report), SelectSeq(report.results, Valid))
                 ELSE report
    /\ UNCHANGED fresh
    /\ UNCHANGED <<worker_vars, case_vars, unit_vars>>

\* variant: the difference of the latencies is not cut off at 0
Aggregate_Signed ==
    /\ "run" \notin computed
    /\ report.results # <<>>
    /\ computed' = computed \cup {"run"}
    /\ LET other_latencies == SelectSeq(Tail(report.results), Measured)
           avg_latency == FracDiv(SumLatency(other_latencies), Len(other_latencies))
           signed == FracSub(Frac(report.results[1].first_token_latency, 1), avg_latency)
       IN  report' =
               IF Len(report.results) > 1
               THEN WithAverages(
                        IF other_latencies = <<>> THEN report
                        ELSE [report EXCEPT !.test_params =
                                 Put(Put(report.test_params, "model_load_time",
                                         FracDiv(signed, 1000)),
                                     "avg_latency", avg_latency)],
                        SelectSeq(Tail(report.results), Valid))
               ELSE report
    /\ UNCHANGED fresh
    /\ UNCHANGED <<worker_vars, case_vars, unit_vars>>

\* the end of run(): with more than the warm-up result in the report, the
\* model load time is worked out, the averages are taken over the valid
\* results after the first and the rating follows from the speed; otherwise
\* the defaults stay
Aggregate ==
    /\ "run" \notin computed
    /\ report.results # <<>>
    /\ computed' = computed \cup {"run"}
    /\ report' = IF Len(report.results) > 1
                 THEN WithAverages(WithLoadTime(report), SelectSeq(Tail(report.results), Valid))
                 ELSE report
    /\ UNCHANGED fresh
    /\ UNCHANGED <<worker_vars, case_vars, unit_vars>>

\* PerformanceReport.__post_init__ on a report made from the same results:
\* nothing is computed when a result has an error, otherwise the averages
\* are taken over every result
PostInit ==
    /\ "post_init" \notin computed
    /\ report.results # <<>>
    /\ computed' = computed \cup {"post_init"}
    /\ LET rs == report.results
       IN  fresh' =
               IF \E k \in DOMAIN rs : rs[k].error # "none"
               THEN PerformanceReport(rs)
               ELSE [PerformanceReport(rs) EXCEPT
                        !.avg_first_token_latency = FracDiv(SumLatency(rs), Len(rs)),
                        !.avg_tokens_per_second = FracDiv(SumTps(rs), Len(rs)),
                        !.performance_rating = PostInitRating(FracDiv(SumTps(rs), Len(rs)))]
    /\ UNCHANGED report
    /\ UNCHANGED <<worker_vars, case_vars, unit_vars>>

InitAgg ==
    /\ WorkerInit
    /\ num_tests = 1
    /\ requested = 1
    /\ CaseIdle
    /\ \E rs \in ResultLists : report = PerformanceReport(rs)
    /\ fresh = PerformanceReport(<<>>)
    /\ computed = {}
    /\ UnitIdle

NextAgg ==
    \/ Aggregate
    \/ PostInit

SpecAgg == InitAgg /\ [][NextAgg]_vars

\* ---------------------------------------------------------------------
\* add_custom_prompt and select_balanced_prompts. A call of
\* select_balanced_prompts is followed on one catalogue: no prompt is added
\* while it is going on.

\* what the user enters in CustomPromptDialog: a name, a content and one of
\* the categories of the combo box
PromptNames == {"greeting", CustomCategory}
PromptContents == {"say hello"}
DialogCategories == {CustomCategory, "code"}

Min(a, b) == IF a < b THEN a ELSE b
Max(a, b) == IF a > b THEN a ELSE b

\* the locals of select_balanced_prompts are gone
LocalsDropped ==
    /\ selected_prompts' = EmptyBag
    /\ available_categories' = {}
    /\ remaining' = 0
    /\ unshuffled' = {}
    /\ category_cycle' = <<>>
    /\ selected_by_category' = <<>>

add_custom_prompt(name, content, category) ==
    /\ sel_pc \in {"idle", "returned"}
    /\ Len(custom_prompts) < MaxAdded
    /\ LET prompt == TestPrompt(name, content, category) IN
          /\ custom_prompts' = Append(custom_prompts, prompt)
          /\ prompts_by_category' =
                Put(prompts_by_category, category,
                    Append(Get(prompts_by_category, category, <<>>), prompt))
    /\ last_added' = [name |-> name, content |-> content, category |-> category]
    /\ sel_pc' = "idle"
    /\ num_prompts' = 0
    /\ returned' = EmptyBag
    /\ LocalsDropped

\* CustomPromptDialog followed by _add_prompt: the user's name and content
\* with the category chosen in the dialog; get_prompt builds
\* TestPrompt(name, content, category) and _add_prompt passes that object's
\* name, content and category fields on
AddPrompt ==
    \E name \in PromptNames, content \in PromptContents, category \in DialogCategories :
        /\ LET prompt == TestPrompt(name, content, category) IN
              add_custom_prompt(prompt.name, prompt.content, prompt.category)
        /\ UNCHANGED <<worker_vars, case_vars, agg_vars, start_vars, restart_vars,
                   share_vars>>

\* the elements at the positions S of a list, as a bag
Picked(list, S) ==
    [p \in {list[k] : k \in S} |-> Cardinality({k \in S : list[k] = p})]

\* the outcomes of random.sample(list, count)
Samples(list, count) ==
    {Picked(list, S) : S \in {T \in SUBSET DOMAIN list : Cardinality(T) = count}}

\* the outcomes of the first round: min(per, len) sampled from each category
RECURSIVE FirstRound(_, _)
FirstRound(cats, per) ==
    IF cats = {} THEN {EmptyBag}
    ELSE LET category == CHOOSE c \in cats : TRUE
             category_prompts == prompts_by_category[category]
             count == Min(per, Len(category_prompts))
         IN  {b (+) sample : b \in FirstRound(cats \ {category}, per),
                             sample \in Samples(category_prompts, count)}

\* the call up to the second round: the custom share, then the first round
SelectBegin ==
    /\ sel_pc \in {"idle", "returned"}
    /\ returned' = EmptyBag
    /\ \E n \in 0..MaxN :
        /\ num_prompts' = n
        /\ LET nonempty == {c \in DOMAIN prompts_by_category :
                               prompts_by_category[c] # <<>>}
               custom == Get(prompts_by_category, CustomCategory, <<>>)
               custom_count == Min(Len(custom), Max(1, n \div CustomShare))
               available == IF custom # <<>> THEN nonempty \ {CustomCategory}
                            ELSE nonempty
           IN
           IF nonempty = {}
           THEN /\ sel_pc' = "returned"
                /\ LocalsDropped
           ELSE \E custom_selected \in
                      (IF custom # <<>> THEN Samples(custom, custom_count)
                       ELSE {EmptyBag}) :
                  /\ available_categories' = available
                  /\ IF n - BagCardinality(custom_selected) > 0 /\ available # {}
                     THEN \E first \in FirstRound(available,
                                 (n - BagCardinality(custom_selected))
                                     \div Cardinality(available)) :
                            LET selected == custom_selected (+) first IN
                            /\ selected_prompts' = selected
                            /\ remaining' = n - BagCardinality(selected)
                            /\ IF n - BagCardinality(selected) > 0
                               THEN /\ sel_pc' = "cycle"
                                    /\ unshuffled' = available
                                    /\ selected_by_category' =
                                          [c \in available |->
                                              {p \in BagToSet(selected) : p.category = c}]
                               ELSE /\ sel_pc' = "shuffle"
                                    /\ unshuffled' = {}
                                    /\ selected_by_category' = <<>>
                     ELSE /\ selected_prompts' = custom_selected
                          /\ remaining' = n - BagCardinality(custom_selected)
                          /\ sel_pc' = "shuffle"
                          /\ unshuffled' = {}
                          /\ selected_by_category' = <<>>
                  /\ category_cycle' = <<>>
    /\ UNCHANGED <<prompts_by_category, custom_prompts, last_added>>
    /\ UNCHANGED <<worker_vars, case_vars, agg_vars, start_vars, restart_vars,
                   share_vars>>

CycleGoesOn == remaining > 0 /\ (unshuffled # {} \/ category_cycle # <<>>)

\* one turn of `while remaining > 0 and category_cycle`: the head of the
\* cycle is any category of the part whose order is not drawn yet, and the
\* first of those put back once that part is used up
CycleTurn ==
    /\ sel_pc = "cycle"
    /\ CycleGoesOn
    /\ \E category \in (IF unshuffled # {} THEN unshuffled
                        ELSE {Head(category_cycle)}) :
         LET rest == IF unshuffled # {} THEN category_cycle
                     ELSE Tail(category_cycle)
             category_prompts == Get(prompts_by_category, category, <<>>)
             unused_prompts ==
                 SelectSeq(category_prompts,
                           LAMBDA p : p \notin Get(selected_by_category, category, {}))
         IN
         /\ unshuffled' = unshuffled \ {category}
         /\ IF unused_prompts # <<>>
            THEN \E k \in DOMAIN unused_prompts :
                   /\ selected_prompts' =
                         selected_prompts (+) SetToBag({unused_prompts[k]})
                   /\ selected_by_category' =
                         [selected_by_category EXCEPT
                             ![category] = @ \cup {unused_prompts[k]}]
                   /\ remaining' = remaining - 1
                   /\ category_cycle' =
                         IF Len(unused_prompts) > 1 /\ remaining - 1 > 0
                         THEN Append(rest, category)
                         ELSE rest
            ELSE /\ category_cycle' = rest
                 /\ UNCHANGED <<selected_prompts, selected_by_category, remaining>>
    /\ UNCHANGED <<prompts_by_category, custom_prompts, last_added, sel_pc,
                   num_prompts, available_categories, returned>>
    /\ UNCHANGED <<worker_vars, case_vars, agg_vars, start_vars, restart_vars,
                   share_vars>>

\* the prompts of the available categories
AllAvailable ==
    UNION {{prompts_by_category[c][k] : k \in DOMAIN prompts_by_category[c]} :
              c \in available_categories}

\* one turn of the last loop: any prompt of the available categories, again
FillTurn ==
    /\ sel_pc = "cycle"
    /\ ~CycleGoesOn
    /\ remaining > 0
    /\ \E prompt \in AllAvailable :
          selected_prompts' = selected_prompts (+) SetToBag({prompt})
    /\ remaining' = remaining - 1
    /\ UNCHANGED <<prompts_by_category, custom_prompts, last_added, sel_pc,
                   num_prompts, available_categories, unshuffled, category_cycle,
                   selected_by_category, returned>>
    /\ UNCHANGED <<worker_vars, case_vars, agg_vars, start_vars, restart_vars,
                   share_vars>>

\* the outcomes of shuffling a list and keeping its first n elements
ShuffledPrefix(bag, n) ==
    IF BagCardinality(bag) <= n THEN {bag}
    ELSE {b \in SubBag(bag) : BagCardinality(b) = n}

\* variant: the list is returned as built, without the final slice
SelectReturn_Unsliced ==
    /\ \/ sel_pc = "shuffle"
       \/ sel_pc = "cycle" /\ ~CycleGoesOn /\ (remaining <= 0 \/ AllAvailable = {})
    /\ returned' = selected_prompts
    /\ sel_pc' = "returned"
    /\ LocalsDropped
    /\ UNCHANGED <<prompts_by_category, custom_prompts, last_added, num_prompts>>
    /\ UNCHANGED <<worker_vars, case_vars, agg_vars, start_vars, restart_vars,
                   share_vars>>

\* random.shuffle(selected_prompts); return selected_prompts[:num_prompts]
SelectReturn ==
    /\ \/ sel_pc = "shuffle"
       \/ sel_pc = "cycle" /\ ~CycleGoesOn /\ (remaining <= 0 \/ AllAvailable = {})
    /\ returned' \in ShuffledPrefix(selected_prompts, num_prompts)
    /\ sel_pc' = "returned"
    /\ LocalsDropped
    /\ UNCHANGED <<prompts_by_category, custom_prompts, last_added, num_prompts>>
    /\ UNCHANGED <<worker_vars, case_vars, agg_vars, start_vars, restart_vars,
                   share_vars>>

InitPrompts ==
    /\ WorkerInit
    /\ num_tests = 1
    /\ requested = 1
    /\ CaseIdle
    /\ AggIdle
    /\ \E f \in Files : Constructed(f)
    /\ StartIdle
    /\ RestartIdle
    /\ ShareIdle

NextPrompts ==
    \/ SelectBegin
    \/ CycleTurn
    \/ FillTurn
    \/ SelectReturn

SpecPrompts == InitPrompts /\ [][NextPrompts]_vars

\* the catalogue as the dialog fills it
NextCatalogue == AddPrompt

SpecCatalogue == InitPrompts /\ [][NextCatalogue]_vars

\* ---------------------------------------------------------------------
\* the start button

\* texts of temperature_input, as character sequences
TemperatureTexts ==
    { <<>>, <<"0", ".", "8">>, <<"2">>, <<"2", ".", "5">>, <<"-", "1">>,
      <<"h", "o", "t">> }

Models == {"", "llama3"}

\* float(text) for an optional sign, digits and at most one point
Unsigned(t) == IF t # <<>> /\ Head(t) \in {"-", "+"} THEN Tail(t) ELSE t

IsNumber(t) ==
    LET u == Unsigned(t) IN
    /\ \A k \in DOMAIN u : u[k] \in Digits \cup {"."}
    /\ Cardinality({k \in DOMAIN u : u[k] = "."}) <= 1
    /\ \E k \in DOMAIN u : u[k] \in Digits

DigitValue(c) == CHOOSE k \in 0..9 : ToString(k) = c

RECURSIVE DigitsValue(_)
DigitsValue(u) ==
    IF u = <<>> THEN 0
    ELSE 10 * DigitsValue(SubSeq(u, 1, Len(u) - 1)) + DigitValue(u[Len(u)])

RECURSIVE Pow10(_)
Pow10(n) == IF n = 0 THEN 1 ELSE 10 * Pow10(n - 1)

FloatOf(t) ==
    LET u == Unsigned(t)
        whole == SelectSeq(u, LAMBDA c : c # ".")
        points == {k \in DOMAIN u : u[k] = "."}
        decimals == IF points = {} THEN 0 ELSE Len(u) - (CHOOSE k \in points : TRUE)
    IN  Frac((IF t # <<>> /\ Head(t) = "-" THEN -1 ELSE 1) * DigitsValue(whole),
             Pow10(decimals))

\* what _start_test objects to, "none" when it goes on to start the worker
Refusal ==
    IF current_model = "" THEN "no_model"
    ELSE IF temperature_text = <<>> THEN "none"
    ELSE IF ~IsNumber(temperature_text) THEN "not_a_number"
    ELSE IF FracGe(FloatOf(temperature_text), 0) /\ ~FracGt(FloatOf(temperature_text), 2)
    THEN "none"
    ELSE "out_of_range"

\* set_model, called by the main window when the model box changes or the
\* models are reloaded; both handlers return early while istesting is set
SetModel ==
    /\ ~istesting
    /\ \E m \in Models : current_model' = m
    /\ UNCHANGED <<temperature_text, details_rows, current_report, export_enabled,
                   start_enabled, istesting, is_testing, test_worker, warning,
                   is_test_paused, stop_enabled, worker_is_paused>>
    /\ UNCHANGED <<worker_vars, case_vars, agg_vars, prompt_vars, restart_vars,
                   share_vars>>

\* the user edits temperature_input
EditTemperature ==
    /\ \E t \in TemperatureTexts : temperature_text' = t
    /\ UNCHANGED <<current_model, details_rows, current_report, export_enabled,
                   start_enabled, istesting, is_testing, test_worker, warning,
                   is_test_paused, stop_enabled, worker_is_paused>>
    /\ UNCHANGED <<worker_vars, case_vars, agg_vars, prompt_vars, restart_vars,
                   share_vars>>

\* _start_test: istesting is set and _init_test_results is called before
\* anything is validated; a refusal returns past the reset of istesting; an
\* accepted request gives the stop button its text and style, makes a new
\* worker (whose pause flag is unset) and resets istesting at the end
StartTest ==
    /\ start_enabled
    /\ warning' = Refusal
    /\ details_rows' = 0
    /\ export_enabled' = FALSE
    /\ IF Refusal # "none"
       THEN /\ istesting' = TRUE
            /\ current_report' = "none"
            /\ UNCHANGED <<start_enabled, is_testing, test_worker, worker_is_paused>>
       ELSE /\ istesting' = FALSE
            /\ current_report' = "initial"
            /\ start_enabled' = FALSE
            /\ is_testing' = TRUE
            /\ test_worker' = "running"
            /\ worker_is_paused' = FALSE
    /\ UNCHANGED <<current_model, temperature_text, is_test_paused, stop_enabled>>
    /\ UNCHANGED <<worker_vars, case_vars, agg_vars, prompt_vars, restart_vars,
                   share_vars>>

\* _stop_test, the slot of stop_btn.clicked: istesting is reset first; with
\* no running worker it returns; in the paused state it calls _continue_test
\* (which sets istesting, the animation flag, and calls resume_test);
\* otherwise it calls pause_test, disables the start button, enables the
\* export buttons and sets is_test_paused
StopTest ==
    /\ IF test_worker # "running"
       THEN /\ istesting' = FALSE
            /\ UNCHANGED <<start_enabled, is_testing, is_test_paused,
                           worker_is_paused, export_enabled>>
       ELSE IF is_test_paused
       THEN /\ istesting' = TRUE
            /\ start_enabled' = FALSE
            /\ is_testing' = TRUE
            /\ is_test_paused' = FALSE
            /\ worker_is_paused' = FALSE
            /\ UNCHANGED export_enabled
       ELSE /\ istesting' = FALSE
            /\ worker_is_paused' = TRUE
            /\ start_enabled' = FALSE
            /\ is_testing' = FALSE
            /\ is_test_paused' = TRUE
            /\ export_enabled' = TRUE
    /\ UNCHANGED <<current_model, temperature_text, details_rows, current_report,
                   test_worker, warning, stop_enabled>>
    /\ UNCHANGED <<worker_vars, case_vars, agg_vars, prompt_vars, restart_vars,
                   share_vars>>

\* _handle_round_completed: a result of the worker becomes a row
RoundCompleted ==
    /\ test_worker = "running"
    /\ details_rows < MaxRows
    /\ details_rows' = details_rows + 1
    /\ UNCHANGED <<current_model, temperature_text, current_report, export_enabled,
                   start_enabled, istesting, is_testing, test_worker, warning,
                   is_test_paused, stop_enabled, worker_is_paused>>
    /\ UNCHANGED <<worker_vars, case_vars, agg_vars, prompt_vars, restart_vars,
                   share_vars>>

\* _handle_test_completed
TestCompleted ==
    /\ test_worker = "running"
    /\ test_worker' = "finished"
    /\ start_enabled' = TRUE
    /\ stop_enabled' = FALSE
    /\ current_report' = "completed"
    /\ export_enabled' = TRUE
    /\ is_testing' = FALSE
    /\ UNCHANGED <<current_model, temperature_text, details_rows, istesting, warning,
                   is_test_paused, worker_is_paused>>
    /\ UNCHANGED <<worker_vars, case_vars, agg_vars, prompt_vars, restart_vars,
                   share_vars>>

\* _handle_test_error
TestError ==
    /\ test_worker = "running"
    /\ test_worker' = "finished"
    /\ start_enabled' = TRUE
    /\ stop_enabled' = FALSE
    /\ is_testing' = FALSE
    /\ UNCHANGED <<current_model, temperature_text, details_rows, current_report,
                   export_enabled, istesting, warning, is_test_paused,
                   worker_is_paused>>
    /\ UNCHANGED <<worker_vars, case_vars, agg_vars, prompt_vars, restart_vars,
                   share_vars>>

InitStart ==
    /\ WorkerInit
    /\ num_tests = 1
    /\ requested = 1
    /\ CaseIdle
    /\ AggIdle
    /\ UnitIdle

NextStart ==
    \/ SetModel
    \/ EditTemperature
    \/ StartTest
    \/ StopTest
    \/ RoundCompleted
    \/ TestCompleted
    \/ TestError

SpecStart == InitStart /\ [][NextStart]_vars

\* ---------------------------------------------------------------------
\* config_restart_ollama_service(None) and the warm-up request that follows
\* it in run(). The service controller answers as it likes: is_running(),
\* stop_service() and start_service() each return either value.

Starts == Cardinality({k \in DOMAIN sent : sent[k] = "start"})

\* `if is_running(): stop_service()`
EnsureStopped ==
    /\ rs_pc = "ensure"
    /\ \E running \in BOOLEAN :
          IF running
          THEN \E stop_success \in BOOLEAN : sent' = Append(sent, "stop")
          ELSE sent' = sent
    /\ rs_pc' = "wait_stop"
    /\ UNCHANGED <<attempt_count, success2, waits>>
    /\ UNCHANGED <<worker_vars, case_vars, agg_vars, prompt_vars, start_vars,
                   share_vars>>

\* variant: the wait loop goes on while attempt_count <= max_attempts
WaitStop_OneMore ==
    /\ rs_pc = "wait_stop"
    /\ \E running \in BOOLEAN :
          IF running /\ attempt_count <= max_attempts
          THEN /\ attempt_count' = attempt_count + 1
               /\ waits' = waits + 1
               /\ rs_pc' = rs_pc
          ELSE /\ attempt_count' = 0
               /\ waits' = waits
               /\ rs_pc' = "start_loop"
    /\ UNCHANGED <<success2, sent>>
    /\ UNCHANGED <<worker_vars, case_vars, agg_vars, prompt_vars, start_vars,
                   share_vars>>

\* `while is_running() and attempt_count < max_attempts`: one test of the
\* condition; a turn sleeps and counts, the exit resets the counter
WaitStop ==
    /\ rs_pc = "wait_stop"
    /\ \E running \in BOOLEAN :
          IF running /\ attempt_count < max_attempts
          THEN /\ attempt_count' = attempt_count + 1
               /\ waits' = waits + 1
               /\ rs_pc' = rs_pc
          ELSE /\ attempt_count' = 0
               /\ waits' = waits
               /\ rs_pc' = "start_loop"
    /\ UNCHANGED <<success2, sent>>
    /\ UNCHANGED <<worker_vars, case_vars, agg_vars, prompt_vars, start_vars,
                   share_vars>>

\* `while not is_running() and attempt_count < max_attempts`: one test of
\* the condition; a turn calls start_service and leaves on its success
TryStart ==
    /\ rs_pc = "start_loop"
    /\ \E running \in BOOLEAN :
          IF ~running /\ attempt_count < max_attempts
          THEN /\ sent' = Append(sent, "start")
               /\ \E start_success \in BOOLEAN :
                     IF start_success
                     THEN /\ success2' = TRUE
                          /\ rs_pc' = "returned"
                          /\ attempt_count' = attempt_count
                     ELSE /\ success2' = success2
                          /\ rs_pc' = rs_pc
                          /\ attempt_count' = attempt_count + 1
          ELSE /\ rs_pc' = "returned"
               /\ UNCHANGED <<sent, success2, attempt_count>>
    /\ UNCHANGED waits
    /\ UNCHANGED <<worker_vars, case_vars, agg_vars, prompt_vars, start_vars,
                   share_vars>>

\* variant: the warm-up request goes out while the service is being started
WarmUpRequest_Early ==
    /\ rs_pc = "start_loop"
    /\ sent' = Append(sent, "generate")
    /\ rs_pc' = "warmed"
    /\ UNCHANGED <<attempt_count, success2, waits>>
    /\ UNCHANGED <<worker_vars, case_vars, agg_vars, prompt_vars, start_vars,
                   share_vars>>

\* run_single_test of the warm-up, whatever the routine returned
WarmUpRequest ==
    /\ rs_pc = "returned"
    /\ sent' = Append(sent, "generate")
    /\ rs_pc' = "warmed"
    /\ UNCHANGED <<attempt_count, success2, waits>>
    /\ UNCHANGED <<worker_vars, case_vars, agg_vars, prompt_vars, start_vars,
                   share_vars>>

InitRestart ==
    /\ WorkerInit
    /\ num_tests = 1
    /\ requested = 1
    /\ CaseIdle
    /\ AggIdle
    /\ UnitIdle

NextRestart ==
    \/ EnsureStopped
    \/ WaitStop
    \/ TryStart
    \/ WarmUpRequest

SpecRestart == InitRestart /\ [][NextRestart]_vars

\* every call of the routine returns to the worker thread that made it: the
\* controller's commands are a `ps`, a `kill` and a detached `ollama serve`,
\* and its own waits are counted loops
SpecRestartLive ==
    /\ SpecRestart
    /\ WF_vars(EnsureStopped)
    /\ WF_vars(WaitStop)
    /\ WF_vars(TryStart)
    /\ WF_vars(WarmUpRequest)

\* ---------------------------------------------------------------------
\* The parameter maps of a run: who writes which dict

\* d[key] = value by thread t on dict d; the writers are recorded while the
\* worker thread runs
Write(kk, ww, d, ks, t, running) ==
    <<[kk EXCEPT ![d] = @ \cup ks],
      IF running THEN [ww EXCEPT ![d] = @ \cup {t}] ELSE ww>>

\* cu signals for the slots of round r, each with the label its result is
\* emitted under, as far as the handlers look at it
RoundSignals(r, cu) == [k \in 1..cu |-> IF cu > 1 THEN "multi" ELSE ToString(r)]

\* _start_test, accepted: _init_test_results, test_params = {} and its
\* entries, the initial report around that dict, the worker around the same
\* dict (its __init__ adds rounds and concurrent_users), worker.start()
StartShared ==
    /\ thread_pc = "none"
    /\ pending = <<>>
    /\ \E r \in 1..MaxRounds, cu \in 1..MaxUsers :
          /\ rounds' = r
          /\ users' = cu
    /\ turn' = 0
    /\ keys' = [d \in Dicts |-> IF d = "start_params"
                                 THEN {"model_name", "rounds", "concurrent_users"}
                                 ELSE {}]
    /\ tab_params' = "start_params"
    /\ written' = [d \in Dicts |-> {}]
    /\ thread_pc' = "copy"
    /\ UNCHANGED pending
    /\ UNCHANGED <<worker_vars, case_vars, agg_vars, prompt_vars, start_vars,
                   restart_vars>>

\* run(): test_params = self.test_params.copy(); test_date; the report
CopyParams ==
    /\ thread_pc = "copy"
    /\ LET w == Write(keys, written, "run_params",
                      keys["start_params"] \cup {"test_date"}, "worker", TRUE)
       IN  keys' = w[1] /\ written' = w[2]
    /\ thread_pc' = "warmup"
    /\ UNCHANGED <<users, rounds, turn, tab_params, pending>>
    /\ UNCHANGED <<worker_vars, case_vars, agg_vars, prompt_vars, start_vars,
                   restart_vars>>

\* run(): the warm-up result is appended and emitted as round "0"
WarmUpShared ==
    /\ thread_pc = "warmup"
    /\ pending' = Append(pending, "0")
    /\ thread_pc' = IF users > 1 THEN "probe" ELSE "rounds"
    /\ UNCHANGED <<users, rounds, turn, keys, tab_params, written>>
    /\ UNCHANGED <<worker_vars, case_vars, agg_vars, prompt_vars, start_vars,
                   restart_vars>>

\* run(): the probe of concurrent_users > 1; a warning goes into
\* self.test_params, which is the dict _start_test built
ProbeShared ==
    /\ thread_pc = "probe"
    /\ \E outcome \in {"fine", "warned", "clamped"} :
          /\ users' = IF outcome = "clamped" THEN 1 ELSE users
          /\ LET w == IF outcome = "fine" THEN <<keys, written>>
                      ELSE Write(keys, written, "start_params",
                                 {"parallel_warning"}, "worker", TRUE)
             IN  keys' = w[1] /\ written' = w[2]
    /\ thread_pc' = "rounds"
    /\ UNCHANGED <<rounds, turn, tab_params, pending>>
    /\ UNCHANGED <<worker_vars, case_vars, agg_vars, prompt_vars, start_vars,
                   restart_vars>>

\* run(): one turn of the round loop; a turn that found the pause flag set
\* has marked the report; every slot's result is appended and emitted
RoundShared ==
    /\ thread_pc = "rounds"
    /\ \E paused \in BOOLEAN :
          LET w == IF paused
                   THEN Write(keys, written, "run_params",
                              {"paused", "completion_status"}, "worker", TRUE)
                   ELSE <<keys, written>>
          IN  keys' = w[1] /\ written' = w[2]
    /\ pending' = pending \o RoundSignals(turn + 1, users)
    /\ turn' = turn + 1
    /\ thread_pc' = IF turn + 1 < rounds THEN "rounds" ELSE "finalize"
    /\ UNCHANGED <<users, rounds, tab_params>>
    /\ UNCHANGED <<worker_vars, case_vars, agg_vars, prompt_vars, start_vars,
                   restart_vars>>

\* run(): with a measured latency among the rounds, model_load_time and
\* avg_latency go into the report; the averages; test_completed.emit(report)
FinalizeShared ==
    /\ thread_pc = "finalize"
    /\ \E measured \in BOOLEAN :
          LET w == IF measured
                   THEN Write(keys, written, "run_params",
                              {"model_load_time", "avg_latency"}, "worker", TRUE)
                   ELSE <<keys, written>>
          IN  keys' = w[1] /\ written' = w[2]
    /\ pending' = Append(pending, "completed")
    /\ thread_pc' = "done"
    /\ UNCHANGED <<users, rounds, turn, tab_params>>
    /\ UNCHANGED <<worker_vars, case_vars, agg_vars, prompt_vars, start_vars,
                   restart_vars>>

\* _handle_round_completed on the UI thread: round "0" stores its latency
\* as model_load_time in current_report.test_params, round "2" does so
\* through _calculate_model_load_time
RoundHandled ==
    /\ pending # <<>>
    /\ Head(pending) # "completed"
    /\ LET w == IF Head(pending) \in {"0", "2"} /\ tab_params # "none"
                THEN Write(keys, written, tab_params, {"model_load_time"}, "ui",
                           thread_pc # "done")
                ELSE <<keys, written>>
       IN  keys' = w[1] /\ written' = w[2]
    /\ pending' = Tail(pending)
    /\ UNCHANGED <<thread_pc, users, rounds, turn, tab_params>>
    /\ UNCHANGED <<worker_vars, case_vars, agg_vars, prompt_vars, start_vars,
                   restart_vars>>

\* _handle_test_completed on the UI thread: current_report = report, and
\* _update_test_summary stores model_load_time in it; the worker is over
CompletedHandled ==
    /\ pending # <<>>
    /\ Head(pending) = "completed"
    /\ tab_params' = "run_params"
    /\ LET w == Write(keys, written, "run_params", {"model_load_time"}, "ui", FALSE)
       IN  keys' = w[1] /\ written' = w[2]
    /\ pending' = Tail(pending)
    /\ thread_pc' = "none"
    /\ UNCHANGED <<users, rounds, turn>>
    /\ UNCHANGED <<worker_vars, case_vars, agg_vars, prompt_vars, start_vars,
                   restart_vars>>

InitShared ==
    /\ WorkerInit
    /\ num_tests = 1
    /\ requested = 1
    /\ CaseIdle
    /\ AggIdle
    /\ UnitIdle

NextShared ==
    \/ StartShared
    \/ CopyParams
    \/ WarmUpShared
    \/ ProbeShared
    \/ RoundShared
    \/ FinalizeShared
    \/ RoundHandled
    \/ CompletedHandled

SpecShared == InitShared /\ [][NextShared]_vars

\* ================================================================ claims
\* the users the rounds run with
CU == concurrent_users

\* number of results recorded for round k
RoundResults(k) ==
    Cardinality({n \in DOMAIN results : /\ results[n].prompt > (k - 1) * CU
                                        /\ results[n].prompt <= k * CU})

\* what _handle_test_completed reads out of the report parameters
RecordedStatus ==
    IF Get(report_params, "cancelled", FALSE) THEN "cancelled"
    ELSE IF Get(report_params, "paused", FALSE) THEN "paused"
    ELSE "normal"

\* how the run ended: stopped by a cancellation break, or all rounds done
ActualEnd ==
    IF hist.loop_break \/ hist.collect_break THEN "cancelled" ELSE "normal"

\* C1 (as stated): a run on which pause() and cancel() were never called
\* ends with a completed report holding 1 + R*C results, C the requested
\* concurrency.
C1_FullReport ==
    (pc \in Terminal /\ ~is_cancelled /\ ~hist.pause_called)
        => (signal = "completed" /\ Len(results) = 1 + num_tests * requested)

\* C2 (as stated): once cancel() has been called no task of a further round
\* is submitted: every task belongs to a round that had started when
\* cancel() was called.
C2_NoFurtherRound ==
    is_cancelled => \A n \in DOMAIN tasks : tasks[n].round <= hist.cancel_round

\* C3 (as stated): after a cancel() during a round, every slot of that round
\* has its result in the report and among the emitted events at completion.
C3_AllKept ==
    (pc = "done" /\ hist.cancel_at = "round")
        => \A i \in 1..CU :
              /\ \E n \in DOMAIN results :
                    results[n].prompt = (hist.cancel_round - 1) * CU + i
              /\ \E n \in DOMAIN emitted :
                    emitted[n].result.prompt = (hist.cancel_round - 1) * CU + i

\* C3 (amended): after a cancel() during round k, the results of round k in
\* the report are those of slots 1..m, each emitted under its own label,
\* where m is the number collected when cancel() was called, plus one when
\* the collecting loop was already waiting for a slot; the later slots are
\* dropped.
C3_KeptUntilObserved ==
    (pc = "done" /\ hist.cancel_at = "round")
        => LET k == hist.cancel_round
               m == RoundResults(k)
           IN  /\ m \in {hist.cancel_collected, hist.cancel_collected + 1}
               /\ m <= CU
               /\ Len(results) = 1 + (k - 1) * CU + m
               /\ \A j \in 1..m :
                     /\ results[1 + (k - 1) * CU + j].prompt = (k - 1) * CU + j
                     /\ emitted[1 + (k - 1) * CU + j].result = results[1 + (k - 1) * CU + j]
                     /\ emitted[1 + (k - 1) * CU + j].label = DisplayRound(k, j, CU)

C3_Witness ==
    /\ pc = "done"
    /\ hist.cancel_at = "round"
    /\ CU = 2
    /\ hist.cancel_collected = 0
    /\ RoundResults(hist.cancel_round) = 1

\* C4 (as stated): a run ended by cancel() completes with cancelled = true in
\* the report parameters, and a run without cancel() never carries the flag.
C4_CancelledFlag ==
    pc = "done" => /\ hist.loop_break => Get(report_params, "cancelled", FALSE)
                   /\ ~is_cancelled => ~Get(report_params, "cancelled", FALSE)

\* C5 (as stated): after a cancel() during a round the report holds whole
\* rounds only: its length is 1 + j*C for some j < R.
C5_WholeRounds ==
    (pc = "done" /\ hist.cancel_at = "round")
        => \E j \in 0..(num_tests - 1) : Len(results) = 1 + j * CU

\* C5 (amended): after a cancel() during round k the report holds the
\* warm-up result, every result of rounds 1..k-1, and between 0 and C
\* results of round k: the last recorded round may be partial.
C5_PartialRound ==
    (pc = "done" /\ hist.cancel_at = "round")
        => LET k == hist.cancel_round
           IN  /\ Len(results) >= 1 + (k - 1) * CU
               /\ Len(results) <= 1 + k * CU
               /\ results[1].prompt = 0
               /\ \A r \in 1..(k - 1) : RoundResults(r) = CU

C5_Witness ==
    /\ pc = "done"
    /\ hist.cancel_at = "round"
    /\ hist.cancel_round = 2
    /\ CU = 2
    /\ Len(results) = 1 + CU + 1

\* C6: pause() acts at a round boundary only: at a boundary reached without
\* cancel() every earlier round is recorded in full, and as long as the
\* pause flag stays set and cancel() is not called the run stays at the
\* boundary and submits no task.
C6_PauseAtBoundary ==
    /\ [](pc \in {"round_top", "pause_wait"} /\ ~is_cancelled
            => /\ Len(results) = 1 + round_num * CU
               /\ tasks = <<>>)
    /\ [][(/\ pc \in {"round_top", "pause_wait"}
           /\ is_paused /\ ~is_cancelled
           /\ is_paused' /\ ~is_cancelled')
            => (pc' \in {"round_top", "pause_wait"} /\ tasks' = tasks)]_vars

C6_Witness ==
    /\ pc = "pause_wait"
    /\ is_paused
    /\ ~is_cancelled
    /\ round_num >= 1
    /\ hist.pause_round = round_num + 1
    /\ CU = 2

\* C7: results are never removed or rewritten, and on a run paused before
\* round k and not cancelled, the results are those of prompts 1, 2, ... in
\* order under the labels of rounds 1, 2, ...: no round is run twice or
\* skipped and the numbering does not restart.
C7_ResumeKeeps ==
    /\ [][/\ Len(results') >= Len(results)
          /\ \A n \in DOMAIN results : results'[n] = results[n]]_vars
    /\ []((hist.pause_round # 0 /\ ~is_cancelled)
            => /\ \A n \in DOMAIN results : results[n].prompt = n - 1
               /\ \A n \in DOMAIN emitted :
                     n >= 2 => emitted[n].label[1] = ((n - 2) \div CU) + 1
               /\ \A n \in DOMAIN tasks : tasks[n].round = round_num + 1)

C7_Witness ==
    /\ hist.pause_round >= 2
    /\ ~is_paused
    /\ ~is_cancelled
    /\ RoundResults(hist.pause_round) >= 1

\* C8 (as stated): at completion the status recorded in the report
\* parameters matches the way the run ended.
C8_StatusMatches ==
    pc = "done" => RecordedStatus = ActualEnd

\* C9: rounds are sequential: every task that exists belongs to the round in
\* progress, no task is left once a round is over, and no task exists
\* before the warm-up result is there.
C9_Sequential ==
    /\ \A n \in DOMAIN tasks : tasks[n].round = round_num + 1
    /\ pc \notin InRound => tasks = <<>>
    /\ tasks # <<>> => (Len(results) >= 1 /\ results[1].prompt = 0)

C9_Witness ==
    /\ round_num >= 1
    /\ pc = "collect_wait"
    /\ \E n \in DOMAIN tasks : tasks[n].state = "running"
    /\ \E n \in DOMAIN tasks : tasks[n].state = "done"

\* C10: results are appended and emitted in slot order: every event carries
\* the result appended with it under the label of its round and slot, and a
\* result of slot i > 1 directly follows that of slot i - 1 of its round.
C10_SlotOrder ==
    /\ Len(emitted) = Len(results)
    /\ \A n \in DOMAIN results :
          /\ emitted[n].result = results[n]
          /\ n >= 2 =>
               LET r == ((results[n].prompt - 1) \div CU) + 1
                   i == ((results[n].prompt - 1) % CU) + 1
               IN  /\ emitted[n].label = DisplayRound(r, i, CU)
                   /\ i > 1 => results[n - 1].prompt = results[n].prompt - 1

C10_Witness ==
    /\ hist.out_of_order
    /\ CU = 2
    /\ pc = "shutdown"
    /\ RoundResults(round_num + 1) = 2
    /\ \A n \in DOMAIN results : results[n].error # "timeout"

\* C11 (as stated): a slot whose task does not resolve within the task
\* timeout gets an error result under its own label, its siblings are not
\* cancelled, and the round does not wait for the timed-out task: once every
\* slot of the round is collected the round can be left.
C11_TimeoutNotHeldUp ==
    /\ \A k \in DOMAIN results :
          results[k].error = "timeout"
              => emitted[k].label = DisplayRound(((results[k].prompt - 1) \div CU) + 1,
                                                 ((results[k].prompt - 1) % CU) + 1, CU)
    /\ ~is_cancelled => \A n \in DOMAIN tasks : tasks[n].state # "cancelled"
    /\ (pc = "shutdown" /\ ~is_cancelled) => ENABLED Shutdown

\* C12: at most concurrent_users test cases are in flight, no task exists
\* during the warm-up and the set-up, and none is left at a round boundary
\* or once the completion signal is out.
C12_BoundedInFlight ==
    /\ Cardinality({n \in DOMAIN tasks : Live(tasks[n])}) <= CU
    /\ pc \in {"start", "warmup", "probe", "prepare"} => tasks = <<>>
    /\ pc \in {"round_top", "pause_wait", "finalize", "done"}
          => \A n \in DOMAIN tasks : ~Live(tasks[n])
    /\ signal = "completed" => \A n \in DOMAIN tasks : ~Live(tasks[n])

C12_Witness ==
    /\ CU = 2
    /\ round_num >= 1
    /\ Cardinality({n \in DOMAIN tasks : tasks[n].state = "running"}) = 2

\* C13: slot i always runs on client i of the clients made for the run, so
\* two tasks of an executor never use the same client.
C13_OwnClient ==
    /\ \A n \in DOMAIN tasks : /\ tasks[n].client = tasks[n].index
                               /\ tasks[n].client \in 1..clients
    /\ \A n, m \in DOMAIN tasks : n # m => tasks[n].client # tasks[m].client

C13_Witness ==
    /\ CU = 2
    /\ round_num >= 1
    /\ Len(tasks) = 2
    /\ tasks[1].state = "running"
    /\ tasks[2].state = "running"
    /\ tasks[1].client = 1
    /\ tasks[2].client = 2

\* C14 (as stated): a failed or timed-out test case is one result with its
\* error set, emitted like any other; the error signal is only raised before
\* the first round; and the slots and rounds after a failure are still run:
\* a round in which a failure was recorded is always left again.
C14_FailureContained ==
    /\ [](pc = "failed" => (Len(results) = 1 /\ tasks = <<>> /\ round_num = 0))
    /\ [](\A n \in DOMAIN results : n <= Len(emitted) => emitted[n].result = results[n])
    /\ []((pc = "done" /\ ~is_cancelled) => Len(results) = 1 + num_tests * CU)
    /\ \A r \in 1..MaxRounds :
          (/\ pc \in InRound
           /\ round_num + 1 = r
           /\ \E k \in DOMAIN results : k > 1 /\ results[k].error # "none")
              ~> (pc \notin InRound \/ round_num + 1 # r)

\* C15 (as stated): once the warm-up result has been emitted the run never
\* ends with the error signal.
C15_NoErrorAfterWarmup ==
    Len(emitted) >= 1 => signal # "error"

\* C16 (as stated): the test case always ends by returning a TestResult, and
\* when the client failed (an error chunk, an exception while streaming, the
\* timeout before the terminal chunk) that result has its error set and every
\* metric equal to 0.
C16_FailureIsErrorResult ==
    tc_pc = "returned"
        => /\ result # NoResult
           /\ (tc_hist.error_chunk \/ tc_hist.raised \/ tc_hist.expired_early)
                 => /\ result.error # "none"
                    /\ result.first_token_latency = 0
                    /\ result.tokens_per_second = Zero
                    /\ result.total_tokens = 0
                    /\ result.total_time = 0

\* C17 (as stated): when the client yielded a chunk carrying an error, the
\* TestResult returned has its error set.
C17_ErrorChunkSetsError ==
    (tc_pc = "returned" /\ tc_hist.error_chunk) => result.error # "none"

\* C18 (as stated): when the timer fires before the terminal chunk has been
\* delivered, the TestResult returned has its error set, a speed of 0 and no
\* tokens, wherever the timer falls between the chunks.
C18_TimeoutIsError ==
    (tc_pc = "returned" /\ tc_hist.expired_early)
        => /\ result.error # "none"
           /\ result.tokens_per_second = Zero
           /\ result.total_tokens = 0

\* the results of the report that count for C19: after the warm-up, without
\* an error (as stated), and with a speed above 0 (as the code has it)
NonError == {k \in 2..Len(report.results) : report.results[k].error = "none"}
Qualifying == {k \in NonError : FracGt(report.results[k].tokens_per_second, 0)}

\* the sum of the speeds, and of the latencies, of the results in S
RECURSIVE TpsOver(_)
TpsOver(S) ==
    IF S = {} THEN Zero
    ELSE LET k == CHOOSE x \in S : TRUE
         IN  FracAdd(report.results[k].tokens_per_second, TpsOver(S \ {k}))

RECURSIVE LatencyOver(_)
LatencyOver(S) ==
    IF S = {} THEN 0
    ELSE LET k == CHOOSE x \in S : TRUE
         IN  report.results[k].first_token_latency + LatencyOver(S \ {k})

\* the averages of the completed report are the means over S, or the
\* defaults when S is empty
MeansOver(S) ==
    IF S = {}
    THEN /\ report.avg_first_token_latency = Zero
         /\ report.avg_tokens_per_second = Zero
         /\ report.performance_rating = "unrated"
    ELSE /\ FracEq(report.avg_first_token_latency, Frac(LatencyOver(S), Cardinality(S)))
         /\ FracEq(report.avg_tokens_per_second, FracDiv(TpsOver(S), Cardinality(S)))

\* C19 (as stated): at completion the two averages are the means over every
\* result that is neither the warm-up result nor an error result; with no
\* such result they are 0 and the rating is the undetermined one.
C19_MeanOverNonError ==
    "run" \in computed => MeansOver(NonError)

\* C19 (amended): at completion the two averages are the means over every
\* result after the warm-up that has no error and a speed above 0; with no
\* such result they are 0 and the rating is the undetermined one.
C19_MeanOverValid ==
    "run" \in computed => MeansOver(Qualifying)

C19_Witness ==
    /\ "run" \in computed
    /\ Len(report.results) = 3
    /\ Cardinality(NonError) = 2
    /\ Cardinality(Qualifying) = 1
    /\ report.results[1].error = "none"
    /\ FracGt(report.results[1].tokens_per_second, 0)
    /\ report.performance_rating # "unrated"

\* C20 (as stated): whichever computation gave a report its rating, the
\* rating follows from the average speed with strict thresholds: above 60
\* excellent, above 30 good, above 10 fair, otherwise poor.
C20_StrictThresholds ==
    \A rep \in {report, fresh} :
        rep.performance_rating # "unrated"
            => rep.performance_rating =
                   (IF FracGt(rep.avg_tokens_per_second, 60) THEN "excellent"
                    ELSE IF FracGt(rep.avg_tokens_per_second, 30) THEN "good"
                    ELSE IF FracGt(rep.avg_tokens_per_second, 10) THEN "fair"
                    ELSE "poor")

\* the results after the warm-up, and those of them with a latency above 0
NonWarmup == 2..Len(report.results)
Positive == {k \in NonWarmup : report.results[k].first_token_latency > 0}

\* the report's model load time is max(0, warm-up latency - mean latency
\* over S) / 1000 and not negative, or is unset when S is empty
LoadTimeOver(S) ==
    IF S = {}
    THEN "model_load_time" \notin DOMAIN report.test_params
    ELSE /\ "model_load_time" \in DOMAIN report.test_params
         /\ report.test_params["model_load_time"].num >= 0
         /\ report.test_params["model_load_time"].den > 0
         /\ FracEq(report.test_params["model_load_time"],
                   FracDiv(FracMax0(FracSub(Frac(report.results[1].first_token_latency, 1),
                                            Frac(LatencyOver(S), Cardinality(S)))),
                           1000))

C26_ClampWithWarning ==
    Get(self_params, "parallel_warning", "none") = "unsupported"
        => /\ CU = 1
           /\ pc # "failed"
           /\ signal = "completed"
                 => Get(report_params, "parallel_warning", "none") # "none"

\* C27 (as stated): a run asked for more than one user gets past the set-up
\* of parallelism without being aborted: it goes on with the users asked for
\* when the reconfiguration and the restart worked (or were not needed), and
\* with one user and a warning when they failed.
C27_DegradeOrKeep ==
    (requested > 1 /\ pc \notin {"start", "warmup", "probe"})
        => /\ pc # "failed"
           /\ \/ CU = requested
              \/ CU = 1 /\ "parallel_warning" \in DOMAIN self_params

NonEmptyCategories ==
    {c \in DOMAIN prompts_by_category : prompts_by_category[c] # <<>>}

PromptsOf(c) == {prompts_by_category[c][k] : k \in DOMAIN prompts_by_category[c]}

C23_EveryCategory ==
    (sel_pc = "returned" /\ num_prompts >= Cardinality(NonEmptyCategories))
        => \A c \in NonEmptyCategories :
              \E p \in BagToSet(returned) : p \in PromptsOf(c)

\* C24 (as stated): after add_custom_prompt(name, content, category) the last
\* prompt of the custom list is also the last of the list of the given
\* category, and its name, content and category are the three arguments.
C24_StoredAsGiven ==
    custom_prompts # <<>>
        => LET prompt == custom_prompts[Len(custom_prompts)]
               list == Get(prompts_by_category, last_added.category, <<>>)
           IN  /\ list # <<>>
               /\ list[Len(list)] = prompt
               /\ prompt.name = last_added.name
               /\ prompt.content = last_added.content
               /\ prompt.category = last_added.category

\* C25 (as stated): a start request that is refused leaves the tab as it
\* was: no worker is made or started, and the rows, the report, the buttons
\* and the animation flag are what they were before the request.
C25_RefusalLeavesIdle ==
    [][(StartTest /\ Refusal # "none")
          => UNCHANGED <<details_rows, current_report, export_enabled,
                         start_enabled, is_testing, test_worker>>]_vars

\* C29: the warm-up request goes out only once the restart routine has
\* returned; by then nothing but the routine's stop and start commands has
\* gone out, a stop before every start, and no request for a completion.
C29_WarmupAfterRestart ==
    [][(sent' # sent /\ sent'[Len(sent')] = "generate")
          => /\ rs_pc = "returned"
             /\ \A k \in DOMAIN sent : sent[k] \in {"stop", "start"}
             /\ \A k \in DOMAIN sent : sent[k] = "stop" => k = 1]_vars

C29_Witness ==
    /\ rs_pc = "warmed"
    /\ sent = <<"stop", "start", "generate">>

\* C30: the restart routine makes at most 3 turns of its wait-for-stop loop
\* and at most 3 calls of start_service, and it returns, whatever the
\* controller answers.
C30_RoutineReturns ==
    /\ [](waits <= max_attempts /\ Starts <= max_attempts)
    /\ <>(rs_pc \in {"returned", "warmed"})

C30_Witness ==
    /\ rs_pc = "returned"
    /\ waits = max_attempts
    /\ Starts = max_attempts
    /\ ~success2

\* C31 (as stated): once a chunk with generated text has been taken in, the
\* time of the first token is recorded, whatever the place of that chunk in
\* the stream.
C31_FirstTextChunkTimed ==
    total_tokens >= 1 => first_token_time # None

\* the token count and the generation time (in seconds) a returned result
\* stands for: the count of the server when it gave a positive one, else the
\* chunks counted; the eval_duration of the server when it gave a positive
\* one, else the time from the first token to the end of the stream
ReportedTokens ==
    IF token_count_from_api > 0 THEN token_count_from_api ELSE total_tokens

GenerationSeconds ==
    IF eval_duration_from_api > 0 THEN eval_duration_from_api \div NsPerSecond
    ELSE IF first_token_time # None
         THEN (start_time + result.total_time \div 1000) - first_token_time
         ELSE 0

\* C32: in a result returned without an error, total_tokens is the server's
\* count when it gave one and the number of text chunks otherwise, and
\* tokens_per_second is (total_tokens - 1) / generation time for more than
\* one token, 1 / generation time for one token, and 0 when there is no
\* token or no positive generation time.
C32_TokensPerSecond ==
    (tc_pc = "returned" /\ result.error = "none")
        => /\ result.total_tokens = ReportedTokens
           /\ (ReportedTokens > 1 /\ GenerationSeconds > 0)
                 => FracEq(result.tokens_per_second,
                           Frac(ReportedTokens - 1, GenerationSeconds))
           /\ (ReportedTokens = 1 /\ GenerationSeconds > 0)
                 => FracEq(result.tokens_per_second, Frac(1, GenerationSeconds))
           /\ (ReportedTokens = 0 \/ GenerationSeconds <= 0)
                 => FracEq(result.tokens_per_second, Zero)

C32_Witness ==
    /\ tc_pc = "returned"
    /\ result.error = "none"
    /\ result.total_tokens = 2
    /\ token_count_from_api = 0
    /\ FracEq(result.tokens_per_second, Frac(1, 1))

\* C33 (as stated): the list returned by select_balanced_prompts(n) holds
\* a prompt twice only when every prompt of the catalogue, those of the
\* custom category included, is in the list.
C33_RepeatOnlyWhenExhausted ==
    (sel_pc = "returned" /\ \E p \in BagToSet(returned) : CopiesIn(p, returned) >= 2)
        => \A c \in DOMAIN prompts_by_category :
              \A p \in PromptsOf(c) : BagIn(p, returned)

\* C34: when cancel_test() is called while the round loop waits in the pause
\* state, the run leaves the wait and test_completed is emitted in the end,
\* whether or not resume_test() is ever called.
C34_CancelEndsPause ==
    (pc = "pause_wait" /\ is_paused /\ is_cancelled) ~> (signal = "completed")

\* a run that was cancelled in the pause wait of a round, is still paused
\* and has emitted test_completed
C34_Witness ==
    /\ signal = "completed"
    /\ is_paused
    /\ hist.cancel_at = "between"
    /\ hist.pause_round = hist.cancel_round + 1

\* C35 (as stated): while the worker thread of a run is running, the run's
\* parameter map is written by the worker thread only, no dict is written by
\* both threads, and the tab does not hold the run's report before the
\* completion signal is handled.
C35_OneWriter ==
    thread_pc \notin {"none", "done"}
        => /\ written["run_params"] \subseteq {"worker"}
           /\ \A d \in Dicts : ~({"ui", "worker"} \subseteq written[d])
           /\ tab_params # "run_params"

\* C36: the results of the report and the round signals emitted are the
\* same results in the same order, one signal for each result, so that at
\* test_completed as many signals have been emitted as the report has
\* results.
C36_EmittedAsRecorded ==
    /\ Len(emitted) = Len(results)
    /\ \A k \in DOMAIN results : emitted[k].result = results[k]

\* a completed run whose report holds the warm-up result, a result of a
\* task and the error result of a wait that timed out
C36_Witness ==
    /\ signal = "completed"
    /\ Len(results) >= 3
    /\ \E k \in DOMAIN results : results[k].error = "timeout"
    /\ \E k \in DOMAIN results : k > 1 /\ results[k].error = "none"

\* C37 (as stated): once the pause flag is set while the last round is being
\* executed, or after it, the run goes on to emit test_completed, whether
\* or not resume_test() is called.
C37_LatePauseCompletes ==
    (/\ is_paused
     /\ \/ pc \in InRound /\ round_num = num_tests - 1
        \/ pc = "finalize")
        ~> (signal = "completed")

\* C38 (as stated): while a test worker is running, is_test_paused equals
\* the worker's pause flag, and a run on which the stop button has not acted
\* yet has both unset and a stop button that takes the click.
C38_PausedInStep ==
    test_worker = "running"
        => /\ is_test_paused = worker_is_paused
           /\ ~worker_is_paused => (~is_test_paused /\ stop_enabled)

\* C40 (as stated): istesting is set exactly while a test worker is
\* running.
C40_BusyWhileRunning ==
    istesting <=> test_worker = "running"

\* C39 (as stated): the concurrent_users entry of a completed report is the
\* number of users the rounds were run with, and a run that completed
\* without cancel_test() has rounds times that many results after the
\* warm-up result.
C39_RecordedConcurrency ==
    signal = "completed"
        => /\ Get(report_params, "concurrent_users", None) = CU
           /\ ~is_cancelled
                 => Len(results) - 1
                      = num_tests * Get(report_params, "concurrent_users", None)

====
